---- MODULE Spec2Model ----
(***************************************************************************)
(* Model of the kinetic-platform spectral processing pipeline              *)
(* (src/data_analysis/data_analysis.py, src/data_analysis/process_data.py) *)
(* and of its liquid handling (src/experiments/FlowControl.py,             *)
(* src/experiments/run_experiment.py, src/hardware_drivers).               *)
(*                                                                         *)
(* Units.  Wavelengths are integers counting 1/WlUnit nm, intensities are  *)
(* integers counting 1/ValUnit instrument units: the files hold decimal    *)
(* numbers, the Smoother rounds labels to WL_DECIMALS and values to        *)
(* VAL_DECIMALS decimals, and the model keeps one more wavelength digit    *)
(* than the Smoother does so that its rounding is not the identity.        *)
(* Floating-point arithmetic is modelled by exact rational arithmetic.     *)
(***************************************************************************)
EXTENDS Integers, Sequences, FiniteSets, TLC

VARIABLES
    params,    \* the parameters table of the data directory (or absent)
    folders,   \* reaction_folders: the run folder names, in processing order
    files,     \* files[i][key]: the files of run i
    summary,   \* summary[metric]: the summary files of the data directory
    pc,        \* position of the running entry point
    run,       \* index (in folders) of the run being processed
    trace,     \* the stage executions so far, each with the files it wrote
    log,       \* the log records emitted so far
    local,     \* locals of the last stage call that a claim speaks about
    flow       \* the FlowControl object: its drivers and their instruments

vars == <<params, folders, files, summary, pc, run, trace, log, local, flow>>

(************************** bounds of the model ****************************)
MaxCols == 3
MaxMeasurements == 3
MaxFrequency == 2

(************************** program constants ******************************)
WL_DECIMALS == 1
VAL_DECIMALS == 2
VIS_CUTOFF == 500
STITCH_WAVELENGTH == 930
STITCH_WINDOW == 10
MIN_SIGNAL_THRESHOLD == 50
INTENSITY_THRESHOLD == 50
TIME_THRESHOLD == 100
DEFAULT_WINDOW_LENGTH == 11
DEFAULT_POLYORDER == 2

WlUnit == 10 ^ (WL_DECIMALS + 1)
ValUnit == 10 ^ VAL_DECIMALS


(****************************** arithmetic *********************************)
Min(a, b) == IF a <= b THEN a ELSE b
Max(a, b) == IF a >= b THEN a ELSE b
Abs(a) == IF a < 0 THEN -a ELSE a

\* ceil(a / b) for b > 0
CeilDiv(a, b) == -((-a) \div b)

\* s[1] + ... + s[n]
RECURSIVE SumTo(_, _)
SumTo(s, n) == IF n = 0 THEN 0 ELSE s[n] + SumTo(s, n - 1)

SeqSum(s) == SumTo(s, Len(s))

\* Euclid's algorithm (the recursive call is made on evaluated arguments)
RECURSIVE Gcd(_, _)
Gcd(a, b) ==
    IF b = 0 THEN Abs(a)
    ELSE CHOOSE g \in {Gcd(x, y) : x \in {b}, y \in {a % Abs(b)}} : TRUE

Lcm(a, b) == (a \div Gcd(a, b)) * b

\* the gcd of s[1], ..., s[n]
RECURSIVE GcdTo(_, _)
GcdTo(s, n) == IF n = 0 THEN 0 ELSE Gcd(s[n], GcdTo(s, n - 1))

SeqGcd(s) == GcdTo(s, Len(s))

\* a[1] * b[1] + ... + a[n] * b[n]
RECURSIVE DotTo(_, _, _)
DotTo(a, b, n) == IF n = 0 THEN 0 ELSE a[n] * b[n] + DotTo(a, b, n - 1)

\* the inner product of two sequences of the same length
Dot(a, b) == DotTo(a, b, Len(a))

\* n / d (d > 0) rounded to the nearest integer, ties to even (np.round)
RoundHalfEven(n, d) ==
    LET q == n \div d
        r == n % d
    IN  CASE 2 * r < d -> q
          [] 2 * r > d -> q + 1
          [] OTHER -> IF q % 2 = 0 THEN q ELSE q + 1

\* the rational n / d (d # 0) in lowest terms with a positive denominator
Rat(n, d) ==
    LET g == Gcd(n, d)
        sgn == IF d < 0 THEN -1 ELSE 1
    IN  [num |-> sgn * (n \div g), den |-> sgn * (d \div g)]

RatOfInt(n) == [num |-> n, den |-> 1]

\* the positions 1..Len(keys) in ascending order of their keys, equal keys
\* in their original order
SortedPositions(keys) ==
    [k \in 1..Len(keys) |->
        CHOOSE i \in 1..Len(keys) :
            Cardinality({j \in 1..Len(keys) :
                \/ keys[j] < keys[i]
                \/ (keys[j] = keys[i] /\ j < i)}) = k - 1]

\* the elements of a finite set of integers in ascending order
SortedSeq(S) ==
    [k \in 1..Cardinality(S) |->
        CHOOSE x \in S : Cardinality({y \in S : y < x}) = k - 1]

(******************************* files *************************************)
Absent == [kind |-> "absent"]
Malformed == [kind |-> "malformed"]
Frame(index, columns, values) ==
    [kind |-> "frame", index |-> index, columns |-> columns, values |-> values]

NRows(df) == Len(df.index)
NCols(df) == Len(df.columns)

\* df[mask] on the rows: the rows at positions rows, in that order
TakeRows(df, rows) ==
    Frame([k \in 1..Len(rows) |-> df.index[rows[k]]],
          df.columns,
          [k \in 1..Len(rows) |-> df.values[rows[k]]])

\* df.iloc[:, :n]
TakeCols(df, n) ==
    Frame(df.index,
          SubSeq(df.columns, 1, n),
          [r \in 1..NRows(df) |-> SubSeq(df.values[r], 1, n)])

FileKeys == {"raw_nir", "raw_vis", "cleaned_nir", "cleaned_vis",
             "smoothed_nir", "smoothed_vis", "merged", "features",
             "plot_VIS", "plot_NIR", "plot_Merged"}

NoOutputs(raw_nir, raw_vis) ==
    [k \in FileKeys |->
        CASE k = "raw_nir" -> raw_nir
          [] k = "raw_vis" -> raw_vis
          [] OTHER -> Absent]

(************************ folder name parsing ******************************)
Digits == <<"0", "1", "2", "3", "4", "5", "6", "7", "8", "9">>
IsDigit(c) == \E d \in 1..10 : Digits[d] = c
DigitVal(c) == (CHOOSE d \in 1..10 : Digits[d] = c) - 1

\* folder.split('_')[0]: the characters before the first underscore
RECURSIVE SplitFirst(_)
SplitFirst(name) ==
    IF name = <<>> \/ Head(name) = "_" THEN <<>>
    ELSE <<Head(name)>> \o SplitFirst(Tail(name))

RECURSIVE DigitsValue(_)
DigitsValue(s) ==
    IF s = <<>> THEN 0
    ELSE 10 * DigitsValue(SubSeq(s, 1, Len(s) - 1)) + DigitVal(s[Len(s)])

\* the digits of int(tok), after an optional sign
IntBody(tok) ==
    IF tok # <<>> /\ Head(tok) \in {"+", "-"} THEN Tail(tok) ELSE tok

\* int(tok) raises ValueError unless tok is an optionally signed digit string
IntParses(tok) ==
    /\ IntBody(tok) # <<>>
    /\ \A k \in 1..Len(IntBody(tok)) : IsDigit(IntBody(tok)[k])

IntValue(tok) ==
    IF tok # <<>> /\ Head(tok) = "-" THEN -DigitsValue(IntBody(tok))
    ELSE DigitsValue(IntBody(tok))

(************************* Time-Axis Standardizer **************************)
\* np.arange(0, stop, step, dtype=int) for step # 0
time_points(stop, step) ==
    LET n == IF step > 0 THEN Max(0, CeilDiv(stop, step))
             ELSE Max(0, CeilDiv(-stop, -step))
    IN  [k \in 1..n |-> (k - 1) * step]

\* reaction_params_df[reaction_params_df['reaction_id'] == reaction_id]
MatchingRows(table, reaction_id) ==
    SelectSeq(table.rows, LAMBDA row : row.reaction_id = reaction_id)

\* CutoffRows with the cutoff row itself dropped (> for >=)
CutoffRows_Strict(df, sensor) ==
    IF sensor = "vis"
    THEN TakeRows(df, SortedSeq({r \in 1..NRows(df) :
                                    df.index[r] > VIS_CUTOFF * WlUnit}))
    ELSE df

\* the wavelength cutoff applied to one band: VIS only, rows >= 500 nm
CutoffRows(df, sensor) ==
    IF sensor = "vis"
    THEN TakeRows(df, SortedSeq({r \in 1..NRows(df) :
                                    df.index[r] >= VIS_CUTOFF * WlUnit}))
    ELSE df

\* AssignTimeHeaders keeping the latest-acquired columns (iloc[:, -min_len:])
AssignTimeHeaders_KeepLast(df, tp) ==
    LET min_len == Min(NCols(df), Len(tp))
        first == NCols(df) - min_len + 1
    IN  Frame(df.index, SubSeq(tp, 1, min_len),
              [r \in 1..NRows(df) |-> SubSeq(df.values[r], first, NCols(df))])

\* lines 65-75: trim to the shorter length and assign the time headers
AssignTimeHeaders(df, tp) ==
    LET min_len == Min(NCols(df), Len(tp))
        cut == IF NCols(df) # Len(tp) THEN TakeCols(df, min_len) ELSE df
        current_time_points ==
            IF NCols(df) # Len(tp) THEN SubSeq(tp, 1, min_len) ELSE tp
    IN  Frame(cut.index, current_time_points, cut.values)

\* one pass of the band loop (lines 54-81): the cleaned file written or the
\* failure logged
StandardizeBand(raw, sensor, tp) ==
    CASE raw.kind = "absent" ->
            [wrote |-> FALSE, file |-> Absent, level |-> "warning"]
      [] raw.kind = "malformed" ->
            [wrote |-> FALSE, file |-> Absent, level |-> "error"]
      [] OTHER ->
            [wrote |-> TRUE,
             file |-> AssignTimeHeaders(CutoffRows(raw, sensor), tp),
             level |-> "none"]

\* the except clause of line 46 without IndexError
CaughtAtParse_ValueOnly == {"ValueError"}

\* which exceptions of lines 44-45 the except clause of line 46 catches
CaughtAtParse == {"IndexError", "ValueError"}

\* lines 43-51: the exception raised before the band loop, or "none"
StandardizeSetupError(name, table) ==
    LET tok == SplitFirst(name)
    IN  CASE ~IntParses(tok) -> "ValueError"
          [] "reaction_id" \notin table.columns -> "KeyError"
          [] MatchingRows(table, IntValue(tok)) = <<>> -> "IndexError"
          [] "num_measurements" \notin table.columns -> "KeyError"
          [] "frequency" \notin table.columns -> "KeyError"
          [] MatchingRows(table, IntValue(tok))[1].frequency = 0 ->
                "ZeroDivisionError"
          [] OTHER -> "none"

\* BandLoop with one try block around both bands: a NIR failure ends the loop
BandLoop_SharedTry(f, tp) ==
    LET nir == StandardizeBand(f["raw_nir"], "nir", tp)
        vis == IF nir.wrote THEN StandardizeBand(f["raw_vis"], "vis", tp)
               ELSE [wrote |-> FALSE, file |-> Absent, level |-> "none"]
        note(b, res) ==
            IF res.wrote \/ res.level = "none" THEN <<>>
            ELSE <<[level |-> res.level, stage |-> "standardize", band |-> b]>>
    IN  [files |-> [f EXCEPT
                      !["cleaned_nir"] = IF nir.wrote THEN nir.file ELSE @,
                      !["cleaned_vis"] = IF vis.wrote THEN vis.file ELSE @],
         wrote |-> (IF nir.wrote THEN {"cleaned_nir"} ELSE {})
                   \cup (IF vis.wrote THEN {"cleaned_vis"} ELSE {}),
         logged |-> note("nir", nir) \o note("vis", vis)]

\* the band loop of lines 53-81 on the files f: NIR first, VIS second, each
\* in its own try block
BandLoop(f, tp) ==
    LET nir == StandardizeBand(f["raw_nir"], "nir", tp)
        vis == StandardizeBand(f["raw_vis"], "vis", tp)
        note(b, res) ==
            IF res.wrote THEN <<>>
            ELSE <<[level |-> res.level, stage |-> "standardize", band |-> b]>>
    IN  [files |-> [f EXCEPT
                      !["cleaned_nir"] = IF nir.wrote THEN nir.file ELSE @,
                      !["cleaned_vis"] = IF vis.wrote THEN vis.file ELSE @],
         wrote |-> (IF nir.wrote THEN {"cleaned_nir"} ELSE {})
                   \cup (IF vis.wrote THEN {"cleaned_vis"} ELSE {}),
         logged |-> note("nir", nir) \o note("vis", vis)]

\* standardize_time_axis(directory, folder, reaction_params_df) on the files
\* f of the run: the files after the call, the files written, the records
\* logged, the exception that leaves the call and the time axis built
standardize_time_axis(f, name, table) ==
    LET err == StandardizeSetupError(name, table)
    IN  IF err # "none"
        THEN [files |-> f, wrote |-> {},
              logged |-> IF err \in CaughtAtParse
                         THEN <<[level |-> "warning", stage |-> "standardize",
                                 band |-> "run"]>>
                         ELSE <<>>,
              exc |-> IF err \in CaughtAtParse THEN "none" ELSE err,
              skipped |-> TRUE,
              tp |-> <<>>]
        ELSE
        LET row == MatchingRows(table, IntValue(SplitFirst(name)))[1]
            tp == time_points(row.num_measurements, row.frequency)
            loop == BandLoop(f, tp)
        IN  [files |-> loop.files, wrote |-> loop.wrote,
             logged |-> loop.logged, exc |-> "none", skipped |-> FALSE,
             tp |-> tp]

(**************************** Spectral Smoother ****************************)
\* line 104 cutting the decimals off instead of rounding
RoundWavelength_Truncate(wl) ==
    (wl \div (WlUnit \div (10 ^ WL_DECIMALS))) * (WlUnit \div (10 ^ WL_DECIMALS))

\* index.astype(float).round(1): a wavelength rounded to WL_DECIMALS decimals
RoundWavelength(wl) ==
    RoundHalfEven(wl, WlUnit \div (10 ^ WL_DECIMALS))
        * (WlUnit \div (10 ^ WL_DECIMALS))

\* the abscissas -m..m of a window of 2m+1 samples
SgT(m) == [k \in 1..(2 * m + 1) |-> k - m - 1]

\* the quadratic orthogonal to 1 and t on -m..m, 3t^2 - m(m+1), over the gcd
\* of its values
SgQ(m) ==
    LET raw == [k \in 1..(2 * m + 1) |-> 3 * SgT(m)[k] * SgT(m)[k] - m * (m + 1)]
        g == SeqGcd(raw)
    IN  [k \in 1..(2 * m + 1) |-> IF g = 0 THEN 0 ELSE raw[k] \div g]

\* the orthogonal basis and its norms for the half-widths m = 0, 1, ... up
\* to that of the default window, at position m + 1 (a tuple of tuples, so
\* that it is evaluated once)
SgBasis ==
    [k \in 1..(DEFAULT_WINDOW_LENGTH \div 2 + 1) |->
        [t |-> SgT(k - 1) \o <<>>, q |-> SgQ(k - 1) \o <<>>,
         s2 |-> Dot(SgT(k - 1), SgT(k - 1)),
         q2 |-> Dot(SgQ(k - 1), SgQ(k - 1))]] \o <<>>

\* the least-squares polynomial of degree polyorder (at most 2) through the
\* window win of 2m+1 samples, evaluated at abscissa t and rounded to
\* VAL_DECIMALS decimals (the values count 1/ValUnit)
SgFit(win, m, polyorder, t) ==
    LET b == SgBasis[m + 1]
        d1 == IF polyorder >= 1 /\ m >= 1 THEN b.s2 ELSE 1
        d2 == IF polyorder >= 2 /\ m >= 1 THEN b.q2 ELSE 1
        den == Lcm(2 * m + 1, Lcm(d1, d2))
    IN  RoundHalfEven(
            (den \div (2 * m + 1)) * SeqSum(win)
            + (IF polyorder >= 1 /\ m >= 1
               THEN (den \div d1) * t * Dot(b.t, win) ELSE 0)
            + (IF polyorder >= 2 /\ m >= 1
               THEN (den \div d2) * b.q[t + m + 1] * Dot(b.q, win) ELSE 0),
            den)

\* the same fit through a window win of an even number n of samples, for a
\* library that accepts one: the abscissas are the odd integers
\* -(n-1), ..., n-1 (twice the distances from the middle of the window), the
\* quadratic orthogonal to 1 and u is n * u^2 - sum(u^2) over the gcd of its
\* values, and the fit is evaluated at the abscissa t2
SgFitEven(win, polyorder, t2) ==
    LET n == Len(win)
        u == [k \in 1..n |-> 2 * k - 1 - n] \o <<>>
        s2 == Dot(u, u)
        raw == [k \in 1..n |-> n * u[k] * u[k] - s2] \o <<>>
        g == SeqGcd(raw)
        q == [k \in 1..n |-> IF g = 0 THEN 0 ELSE raw[k] \div g] \o <<>>
        q2 == Dot(q, q)
        qt == IF g = 0 THEN 0 ELSE (n * t2 * t2 - s2) \div g
        d1 == IF polyorder >= 1 THEN s2 ELSE 1
        d2 == IF polyorder >= 2 /\ q2 > 0 THEN q2 ELSE 1
        den == Lcm(n, Lcm(d1, d2))
    IN  RoundHalfEven(
            (den \div n) * SeqSum(win)
            + (IF polyorder >= 1 THEN (den \div d1) * t2 * Dot(u, win) ELSE 0)
            + (IF polyorder >= 2 /\ q2 > 0
               THEN (den \div d2) * qt * Dot(q, win) ELSE 0),
            den)

\* savgol_filter(x, window_length, polyorder) with mode='interp', then
\* round(2), at position i of column x: the interior is the fit of the
\* centred window at its centre, the first and last window_length // 2
\* samples are the fit of the first and last window.  An even window is
\* centred between the samples i and i + 1
SavgolAt(x, i, window_length, polyorder) ==
    LET n == Len(x)
        m == window_length \div 2
    IN  IF window_length % 2 = 1
        THEN CASE i <= m ->
                    SgFit(SubSeq(x, 1, window_length), m, polyorder, i - m - 1)
               [] i > n - m ->
                    SgFit(SubSeq(x, n - window_length + 1, n), m, polyorder,
                          i - (n - m))
               [] OTHER ->
                    SgFit(SubSeq(x, i - m, i + m), m, polyorder, 0)
        ELSE CASE i <= m ->
                    SgFitEven(SubSeq(x, 1, window_length), polyorder,
                              2 * i - 1 - window_length)
               [] i > n - m ->
                    SgFitEven(SubSeq(x, n - window_length + 1, n), polyorder,
                              2 * (i - (n - window_length)) - 1 - window_length)
               [] OTHER ->
                    SgFitEven(SubSeq(x, i - m + 1, i + m), polyorder, 0)

SavgolColumn(x, window_length, polyorder) ==
    [i \in 1..Len(x) |-> SavgolAt(x, i, window_length, polyorder)]

\* savgol_filter raises ValueError: polyorder not below the window, or a
\* window longer than the axis (mode 'interp'); an even window raises in the
\* libraries that require an odd one (evenOk says whether this one accepts it)
SavgolRaises(n, window_length, polyorder, evenOk) ==
    \/ window_length < 1
    \/ (window_length % 2 = 0 /\ ~evenOk)
    \/ polyorder >= window_length
    \/ window_length > n

\* df[timestamp] always taking the first column
Column_First(df, c) == [r \in 1..NRows(df) |-> df.values[r][1]]

\* df[timestamp].values: the cells of the column c
Column(df, c) == [r \in 1..NRows(df) |-> df.values[r][c]]

\* lines 103-109: the smoothed frame of a cleaned frame
SmoothFrame(df, window_length, polyorder) ==
    Frame([r \in 1..NRows(df) |-> RoundWavelength(df.index[r])],
          df.columns,
          [r \in 1..NRows(df) |->
              [c \in 1..NCols(df) |->
                  SavgolAt(Column(df, c), r, window_length, polyorder)]])

\* SmoothBand writing a frame without rows even when the cleaned file is missing
SmoothBand_WritesForMissing(cleaned, window_length, polyorder, emptyOk, evenOk) ==
    [wrote |-> TRUE, file |-> Frame(<<>>, <<>>, <<>>), level |-> "none"]

\* one pass of the band loop of apply_smoothing (lines 98-113).  emptyOk says
\* whether the filter accepts an array without columns (the library decides)
SmoothBand(cleaned, window_length, polyorder, emptyOk, evenOk) ==
    CASE cleaned.kind = "absent" ->
            [wrote |-> FALSE, file |-> Absent, level |-> "none"]
      [] cleaned.kind = "malformed" ->
            [wrote |-> FALSE, file |-> Absent, level |-> "error"]
      [] \/ SavgolRaises(NRows(cleaned), window_length, polyorder, evenOk)
         \/ (NCols(cleaned) = 0 /\ ~emptyOk) ->
            [wrote |-> FALSE, file |-> Absent, level |-> "error"]
      [] OTHER ->
            [wrote |-> TRUE,
             file |-> SmoothFrame(cleaned, window_length, polyorder),
             level |-> "none"]

\* apply_smoothing(directory, folder, window_length, polyorder) on the files
\* f of the run: NIR first, VIS second, each in its own try block
apply_smoothing(f, window_length, polyorder, emptyOk, evenOk) ==
    LET nir == SmoothBand(f["cleaned_nir"], window_length, polyorder, emptyOk, evenOk)
        vis == SmoothBand(f["cleaned_vis"], window_length, polyorder, emptyOk, evenOk)
        note(b, res) ==
            IF res.level = "none" THEN <<>>
            ELSE <<[level |-> res.level, stage |-> "smooth", band |-> b]>>
    IN  [files |-> [f EXCEPT
                      !["smoothed_nir"] = IF nir.wrote THEN nir.file ELSE @,
                      !["smoothed_vis"] = IF vis.wrote THEN vis.file ELSE @],
         wrote |-> (IF nir.wrote THEN {"smoothed_nir"} ELSE {})
                   \cup (IF vis.wrote THEN {"smoothed_vis"} ELSE {}),
         logged |-> note("nir", nir) \o note("vis", vis),
         exc |-> "none"]

(******************************* Band Merger *******************************)
\* the position of a column label in a frame that has it
ColumnOf(df, label) == CHOOSE c \in 1..NCols(df) : df.columns[c] = label

\* CommonColumns keeping only the first shared label
CommonColumns_First(df_nir, df_vis) ==
    LET common == SelectSeq(df_nir.columns,
                            LAMBDA label : \E c \in 1..NCols(df_vis) :
                                               df_vis.columns[c] = label)
    IN  IF common = <<>> THEN <<>> ELSE <<common[1]>>

\* df_nir.columns.intersection(df_vis.columns): the shared labels in the
\* order of the near-infrared frame
CommonColumns(df_nir, df_vis) ==
    SelectSeq(df_nir.columns,
              LAMBDA label : \E c \in 1..NCols(df_vis) : df_vis.columns[c] = label)

\* df[common_cols]
SelectColumns(df, labels) ==
    Frame(df.index, labels,
          [r \in 1..NRows(df) |->
              [c \in 1..Len(labels) |-> df.values[r][ColumnOf(df, labels[c])]]])

\* the rows of the overlap window (lines 157-160), both ends included
RegionRows(df, stitch_wavelength, stitch_window) ==
    {r \in 1..NRows(df) :
        /\ df.index[r] >= (stitch_wavelength - stitch_window) * WlUnit
        /\ df.index[r] <= (stitch_wavelength + stitch_window) * WlUnit}

\* region.mean(axis=0) of one column: the sum and the count of its cells
\* (the mean is undefined, NaN, when the count is 0)
RegionMean(df, rows, c) ==
    [sum |-> SeqSum([k \in 1..Cardinality(rows) |->
                        df.values[SortedSeq(rows)[k]][c]]),
     cnt |-> Cardinality(rows)]

\* SignalSignificant with >= for >
SignalSignificant_AtThreshold(vis_mean, min_signal_threshold) ==
    /\ vis_mean.cnt > 0
    /\ vis_mean.sum >= min_signal_threshold * ValUnit * vis_mean.cnt

\* vis_means > min_signal_threshold (a NaN mean compares False)
SignalSignificant(vis_mean, min_signal_threshold) ==
    /\ vis_mean.cnt > 0
    /\ vis_mean.sum > min_signal_threshold * ValUnit * vis_mean.cnt

\* np.where(vis_means > threshold, nir_means / vis_means, 1.0) for one column
WhereFactor(vis_mean, nir_mean, min_signal_threshold) ==
    IF SignalSignificant(vis_mean, min_signal_threshold)
    THEN CASE nir_mean.cnt = 0 -> [kind |-> "nan"]
           [] vis_mean.sum = 0 ->
                IF nir_mean.sum = 0 THEN [kind |-> "nan"] ELSE [kind |-> "inf"]
           [] OTHER ->
                [kind |-> "num",
                 val |-> Rat(nir_mean.sum * vis_mean.cnt,
                             vis_mean.sum * nir_mean.cnt)]
    ELSE [kind |-> "num", val |-> RatOfInt(1)]

\* FiniteFactor filling with 0 instead of 1
FiniteFactor_ZeroFill(factor) ==
    IF factor.kind = "num" THEN factor.val ELSE RatOfInt(0)

\* .fillna(1.0).replace([inf, -inf], 1.0) (line 171)
FiniteFactor(factor) ==
    IF factor.kind = "num" THEN factor.val ELSE RatOfInt(1)

\* the scaling factor of each shared column (lines 156-171)
ScalingFactors(df_nir, df_vis, stitch_wavelength, stitch_window, min_signal_threshold) ==
    [c \in 1..NCols(df_vis) |->
        FiniteFactor(WhereFactor(
            RegionMean(df_vis,
                       RegionRows(df_vis, stitch_wavelength, stitch_window), c),
            RegionMean(df_nir,
                       RegionRows(df_nir, stitch_wavelength, stitch_window), c),
            min_signal_threshold))]

\* the rows kept of the visible frame: strictly below the stitch wavelength
VisPartRows(df_vis, stitch_wavelength) ==
    SortedSeq({r \in 1..NRows(df_vis) :
                  df_vis.index[r] < stitch_wavelength * WlUnit})

\* the rows kept of the near-infrared frame: at or above the stitch wavelength
NirPartRows(df_nir, stitch_wavelength) ==
    SortedSeq({r \in 1..NRows(df_nir) :
                  df_nir.index[r] >= stitch_wavelength * WlUnit})

\* the copy of a single band with every value halved
AsRational_Halved(df) ==
    Frame(df.index, df.columns,
          [r \in 1..NRows(df) |->
              [c \in 1..NCols(df) |-> Rat(df.values[r][c], 2)]])

\* a frame whose cells are rationals: a band written unscaled
AsRational(df) ==
    Frame(df.index, df.columns,
          [r \in 1..NRows(df) |->
              [c \in 1..NCols(df) |-> RatOfInt(df.values[r][c])]])

\* lines 145-180 with both bands present: the merged frame (rational cells),
\* the band each of its rows was taken from, and the scaling factors
StitchBands(nir, vis, stitch_wavelength, stitch_window, min_signal_threshold) ==
    LET common_cols == CommonColumns(nir, vis)
        df_nir == SelectColumns(nir, common_cols)
        df_vis == SelectColumns(vis, common_cols)
        scaling_factors == ScalingFactors(df_nir, df_vis, stitch_wavelength,
                                          stitch_window, min_signal_threshold)
        vrows == VisPartRows(df_vis, stitch_wavelength)
        nrows == NirPartRows(df_nir, stitch_wavelength)
        scaled(r) ==
            [c \in 1..Len(common_cols) |->
                Rat(df_vis.values[r][c] * scaling_factors[c].num,
                    scaling_factors[c].den)]
        cat_index == [k \in 1..Len(vrows) |-> df_vis.index[vrows[k]]]
                     \o [k \in 1..Len(nrows) |-> df_nir.index[nrows[k]]]
        cat_values == [k \in 1..Len(vrows) |-> scaled(vrows[k])]
                      \o [k \in 1..Len(nrows) |->
                            [c \in 1..Len(common_cols) |->
                                RatOfInt(df_nir.values[nrows[k]][c])]]
        cat_origin == [k \in 1..Len(vrows) |-> "vis"]
                      \o [k \in 1..Len(nrows) |-> "nir"]
        order == SortedPositions(cat_index)
    IN  [file |-> Frame([k \in 1..Len(order) |-> cat_index[order[k]]],
                        common_cols,
                        [k \in 1..Len(order) |-> cat_values[order[k]]]),
         origin |-> [k \in 1..Len(order) |-> cat_origin[order[k]]],
         scaling |-> scaling_factors]

\* merge_vis_nir_spectra(directory, folder, stitch_wavelength, stitch_window,
\* min_signal_threshold) on the files f of the run
merge_vis_nir_spectra(f, stitch_wavelength, stitch_window, min_signal_threshold) ==
    LET nir == f["smoothed_nir"]
        vis == f["smoothed_vis"]
        none == [files |-> f, wrote |-> {}, logged |-> <<>>, exc |-> "none",
                 mode |-> "none", origin |-> <<>>, scaling |-> <<>>]
    IN  CASE nir.kind = "malformed" \/ vis.kind = "malformed" ->
                [none EXCEPT !.logged =
                    <<[level |-> "error", stage |-> "merge", band |-> "both"]>>]
          [] nir.kind = "absent" /\ vis.kind = "absent" -> none
          [] vis.kind = "absent" ->
                [none EXCEPT !.files = [f EXCEPT !["merged"] = AsRational(nir)],
                             !.wrote = {"merged"}, !.mode = "nir"]
          [] nir.kind = "absent" ->
                [none EXCEPT !.files = [f EXCEPT !["merged"] = AsRational(vis)],
                             !.wrote = {"merged"}, !.mode = "vis"]
          [] OTHER ->
                LET st == StitchBands(nir, vis, stitch_wavelength,
                                      stitch_window, min_signal_threshold)
                IN  [none EXCEPT !.files = [f EXCEPT !["merged"] = st.file],
                                 !.wrote = {"merged"}, !.mode = "both",
                                 !.origin = st.origin, !.scaling = st.scaling]

(**************************** Heatmap Plotter ******************************)
Image == [kind |-> "image"]

\* the smoothed or merged file a heatmap is drawn from, and the plot file
PlotSource(label) ==
    CASE label = "VIS" -> "smoothed_vis"
      [] label = "NIR" -> "smoothed_nir"
      [] OTHER -> "merged"

PlotTarget(label) ==
    CASE label = "VIS" -> "plot_VIS"
      [] label = "NIR" -> "plot_NIR"
      [] OTHER -> "plot_Merged"

PlotLabels == <<"VIS", "NIR", "Merged">>

\* one pass of the loop of plot_reaction_heatmap (lines 194-218): a missing
\* file is passed over, any exception is logged.  emptyOk says whether the
\* plotting library draws a frame without rows or columns
PlotOne(src, emptyOk) ==
    CASE src.kind = "absent" -> "skip"
      [] src.kind = "malformed" -> "error"
      [] (NRows(src) = 0 \/ NCols(src) = 0) /\ ~emptyOk -> "error"
      [] OTHER -> "saved"

\* plot_reaction_heatmap(directory, folder) on the files f of the run
plot_reaction_heatmap(f, emptyOk) ==
    LET outcome == [k \in 1..3 |-> PlotOne(f[PlotSource(PlotLabels[k])], emptyOk)]
        saved == {PlotTarget(PlotLabels[k]) : k \in {j \in 1..3 : outcome[j] = "saved"}}
        note(k) ==
            IF outcome[k] = "error"
            THEN <<[level |-> "error", stage |-> "plot", band |-> PlotLabels[k]]>>
            ELSE <<>>
    IN  [files |-> [k \in FileKeys |-> IF k \in saved THEN Image ELSE f[k]],
         wrote |-> saved,
         logged |-> note(1) \o note(2) \o note(3),
         exc |-> "none"]

(*************************** Feature Extractor *****************************)
NaN == [kind |-> "nan"]
Num(v) == [kind |-> "num", v |-> v]

\* np.argmax taking the last position of the largest element
ArgMax_Last(x) ==
    CHOOSE i \in 1..Len(x) :
        /\ \A j \in 1..Len(x) : x[j] <= x[i]
        /\ \A j \in (i + 1)..Len(x) : x[j] < x[i]

\* np.argmax: the first position of the largest element
ArgMax(x) ==
    CHOOSE i \in 1..Len(x) :
        /\ \A j \in 1..Len(x) : x[j] <= x[i]
        /\ \A j \in 1..(i - 1) : x[j] < x[i]

\* the wavelengths over their common divisor g
ReducedWavelengths(index) ==
    LET g == SeqGcd(index)
    IN  [r \in 1..Len(index) |-> IF g = 0 THEN 0 ELSE index[r] \div g]

\* line 255 without the Jacobian factor
IntensityEv_NoJacobian(intensity, index) == intensity

\* lines 254-255: intensity * hc / energies^2 = intensity * wavelength^2 / hc,
\* here in units of g^2 / (hc * ValUnit), a positive factor that neither the
\* maximum nor the comparisons with half of it depend on
IntensityEv(intensity, index) ==
    LET wl == ReducedWavelengths(index)
    IN  [r \in 1..Len(index) |-> intensity[r] * wl[r] * wl[r]] \o <<>>

\* line 249 with a disjunction in place of the conjunction
NoiseGated_Either(peak_int, timestamp, intensity_threshold, time_threshold) ==
    \/ peak_int < intensity_threshold * ValUnit
    \/ timestamp > time_threshold

\* line 249: the noise filter
NoiseGated(peak_int, timestamp, intensity_threshold, time_threshold) ==
    /\ peak_int < intensity_threshold * ValUnit
    /\ timestamp > time_threshold

\* whether interp1d accepts half_max between the samples at a and a + 1
\* (bounds_error: a value outside the two samples raises ValueError);
\* twice the samples are compared with the maximum
InBracket(ev, a, peak) ==
    /\ Min(ev[a], ev[a + 1]) * 2 <= ev[peak]
    /\ ev[peak] <= Max(ev[a], ev[a + 1]) * 2

\* a / b < c / d for a, c >= 0 and b, d > 0, by integer parts and the
\* reciprocals of the remainders (no product is formed)
RECURSIVE RatLessParts(_, _, _, _)
RatLessParts(a, b, c, d) ==
    IF a \div b # c \div d THEN a \div b < c \div d
    ELSE IF c % d = 0 THEN FALSE
    ELSE IF a % b = 0 THEN TRUE
    ELSE RatLessParts(d, c % d, b, a % b)

RatLess(x, y) == RatLessParts(x.num, x.den, y.num, y.den)

\* lines 270-274: interp1d through the samples a and a + 1 of
\* (intensity_ev, energies), evaluated at half_max.  The energy hc / lambda
\* is returned in units of hc / g, as a rational of the reduced wavelengths
InterpEnergy(ev, wl, a, peak) ==
    LET theta == Rat(ev[peak] - 2 * ev[a], 2 * (ev[a + 1] - ev[a]))
    IN  Rat(theta.den * wl[a + 1] + theta.num * (wl[a] - wl[a + 1]),
            theta.den * wl[a] * wl[a + 1])

\* line 276 without abs
AbsDiff_Signed(e_left, e_right) ==
    [minuend |-> e_left, subtrahend |-> e_right]

\* line 276: abs(e_left - e_right), kept as the difference of the larger
\* and the smaller energy
AbsDiff(e_left, e_right) ==
    IF RatLess(e_left, e_right)
    THEN [minuend |-> e_right, subtrahend |-> e_left]
    ELSE [minuend |-> e_left, subtrahend |-> e_right]

Raise(exc) == [kind |-> "raise", exc |-> exc]

\* np.argmax(intensity_ev) (line 258).  intensity_ev is a float array: rows
\* whose exact products I * lambda^2 are equal and not zero, at different
\* wavelengths, may round to different floats, so any of them can be the
\* first maximum of the array; products that are zero, or rows of one
\* wavelength, are equal as floats too and the first of them is taken
EvPeakChoices(ev, wl) ==
    {i \in 1..Len(ev) :
        /\ ev[i] = ev[ArgMax(ev)]
        /\ i # ArgMax(ev) => (ev[i] # 0 /\ wl[i] # wl[ArgMax(ev)])}

\* HalfMaxWidth with the left search taking the first sample below half_max
HalfMaxWidth_FirstBelow(ev, wl, peak_idx_ev) ==
    LET left == {i \in 1..(peak_idx_ev - 1) : 2 * ev[i] < ev[peak_idx_ev]}
        right == {i \in (peak_idx_ev + 1)..Len(ev) : 2 * ev[i] < ev[peak_idx_ev]}
    IN  IF left = {} \/ right = {} THEN Raise("IndexError")
        ELSE LET left_idx == CHOOSE i \in left : \A j \in left : i <= j
                 right_idx == CHOOSE i \in right : \A j \in right : i <= j
             IN  IF /\ InBracket(ev, left_idx, peak_idx_ev)
                    /\ InBracket(ev, right_idx - 1, peak_idx_ev)
                 THEN LET fwhm == AbsDiff(
                              InterpEnergy(ev, wl, left_idx, peak_idx_ev),
                              InterpEnergy(ev, wl, right_idx - 1, peak_idx_ev))
                      IN  [kind |-> "num", peak_idx_ev |-> peak_idx_ev,
                           left_idx |-> left_idx, right_idx |-> right_idx,
                           minuend |-> fwhm.minuend,
                           subtrahend |-> fwhm.subtrahend]
                 ELSE Raise("ValueError")

\* lines 258-276: the linewidth of one column in energy space: the peak
\* index, the two crossing indexes and the difference of the two
\* interpolated energies; or the exception of a crossing search without a
\* sample below half_max (IndexError) or of an interpolation outside its
\* two samples (ValueError)
HalfMaxWidth(ev, wl, peak_idx_ev) ==
    LET left == {i \in 1..(peak_idx_ev - 1) : 2 * ev[i] < ev[peak_idx_ev]}
        right == {i \in (peak_idx_ev + 1)..Len(ev) : 2 * ev[i] < ev[peak_idx_ev]}
    IN  IF left = {} \/ right = {} THEN Raise("IndexError")
        ELSE LET left_idx == CHOOSE i \in left : \A j \in left : j <= i
                 right_idx == CHOOSE i \in right : \A j \in right : i <= j
             IN  IF /\ InBracket(ev, left_idx, peak_idx_ev)
                    /\ InBracket(ev, right_idx - 1, peak_idx_ev)
                 THEN LET fwhm == AbsDiff(
                              InterpEnergy(ev, wl, left_idx, peak_idx_ev),
                              InterpEnergy(ev, wl, right_idx - 1, peak_idx_ev))
                      IN  [kind |-> "num", peak_idx_ev |-> peak_idx_ev,
                           left_idx |-> left_idx, right_idx |-> right_idx,
                           minuend |-> fwhm.minuend,
                           subtrahend |-> fwhm.subtrahend]
                 ELSE Raise("ValueError")

\* line 277 catching ValueError only
CaughtAtCrossing_ValueOnly == {"ValueError"}

\* line 277: except (IndexError, ValueError)
CaughtAtCrossing == {"IndexError", "ValueError"}

\* lines 261-278: the try block around the linewidth
WidthOrNaN(width) ==
    IF width.kind = "raise" /\ width.exc \in CaughtAtCrossing THEN NaN
    ELSE width

\* lines 241-285: the record of the timestamp column c
FeatureRecord(df, c, intensity_threshold, time_threshold, peak_idx_ev) ==
    LET intensity == Column(df, c) \o <<>>
        peak_idx == ArgMax(intensity)
        peak_int == intensity[peak_idx]
    IN  IF NoiseGated(peak_int, df.columns[c], intensity_threshold, time_threshold)
        THEN [timestamp |-> df.columns[c], max_intensity |-> peak_int,
              peak_wavelength |-> NaN, fwhm_ev |-> NaN]
        ELSE [timestamp |-> df.columns[c], max_intensity |-> peak_int,
              peak_wavelength |-> Num(df.index[peak_idx]),
              fwhm_ev |-> WidthOrNaN(
                  HalfMaxWidth(IntensityEv(intensity, df.index),
                               ReducedWavelengths(df.index) \o <<>>,
                               peak_idx_ev))]

Features(rows) == [kind |-> "features", rows |-> rows]

\* the energy-space peak index of every column of the smoothed NIR frame df:
\* one choice per column (none to make for a file that is not a frame with
\* rows)
RECURSIVE EvPeaksUpTo(_, _)
EvPeaksUpTo(df, c) ==
    IF c = 0 THEN {<<>>}
    ELSE {Append(peaks, i) :
             peaks \in EvPeaksUpTo(df, c - 1),
             i \in EvPeakChoices(IntensityEv(Column(df, c), df.index),
                                 ReducedWavelengths(df.index))}

EvPeaks(df) ==
    IF df.kind # "frame" \/ NRows(df) = 0 THEN {<<>>}
    ELSE EvPeaksUpTo(df, NCols(df))

\* extract_spectral_features(directory, folder, intensity_threshold,
\* time_threshold) on the files f of the run.  Nothing is caught around
\* read_csv (line 236) and argmax (line 244); an exception that leaves the
\* loop over the columns leaves the call before line 287 writes the table
extract_spectral_features(f, intensity_threshold, time_threshold, peaks) ==
    LET df == f["smoothed_nir"]
        none == [files |-> f, wrote |-> {}, logged |-> <<>>, exc |-> "none"]
    IN  CASE df.kind = "absent" -> none
          [] df.kind = "malformed" -> [none EXCEPT !.exc = "ParserError"]
          [] NCols(df) > 0 /\ NRows(df) = 0 -> [none EXCEPT !.exc = "ValueError"]
          [] OTHER ->
                LET results == [c \in 1..NCols(df) |->
                                   FeatureRecord(df, c, intensity_threshold,
                                                 time_threshold, peaks[c])] \o <<>>
                    raising == {c \in 1..NCols(df) :
                                   results[c].fwhm_ev.kind = "raise"}
                IN  IF raising # {}
                    THEN [none EXCEPT !.exc =
                            results[CHOOSE c \in raising :
                                       \A j \in raising : c <= j].fwhm_ev.exc]
                    ELSE [none EXCEPT
                            !.files = [f EXCEPT !["features"] = Features(results)],
                            !.wrote = {"features"}]

(************************ Cross-Experiment Aggregator ***********************)
Metrics == <<"max_intensity", "peak_wavelength", "fwhm_ev">>

\* lines 303-308 for the feature file of one run: what leaves the loop body.
\* A feature file without records has no header, so read_csv raises; a trace
\* of fewer points than the window makes savgol_filter raise
CompileError(features, window_length, polyorder, evenOk) ==
    CASE features.rows = <<>> -> "EmptyDataError"
      [] SavgolRaises(Len(features.rows), window_length, polyorder, evenOk) -> "ValueError"
      [] OTHER -> "none"

\* df[metric]: the series of one metric over the records of a feature file,
\* each cell a number or NaN
MetricSeries(rows, metric) ==
    [i \in 1..Len(rows) |->
        IF metric = "max_intensity" THEN Num(rows[i].max_intensity)
        ELSE rows[i][metric]]

\* the last position before i, and the first after i, that holds a value
\* (0 when there is none)
PrevValid(s, i) ==
    IF \A a \in 1..(i - 1) : s[a] = NaN THEN 0
    ELSE CHOOSE a \in 1..(i - 1) :
             s[a] # NaN /\ \A j \in (a + 1)..(i - 1) : s[j] = NaN
NextValid(s, i) ==
    IF \A b \in (i + 1)..Len(s) : s[b] = NaN THEN 0
    ELSE CHOOSE b \in (i + 1)..Len(s) :
             s[b] # NaN /\ \A j \in (i + 1)..(b - 1) : s[j] = NaN

\* Series.interpolate() with its defaults (linear, forward): a gap after a
\* value gets the point k / n of the way from the value before it (lo) to
\* the value after it (hi), the positions taken as equally spaced; with no
\* value after it, the value before it; a gap before the first value stays
Interpolate(s) ==
    [i \in 1..Len(s) |->
        IF s[i] # NaN THEN s[i]
        ELSE IF PrevValid(s, i) = 0 THEN NaN
        ELSE IF NextValid(s, i) = 0 THEN s[PrevValid(s, i)]
        ELSE [kind |-> "interp",
              lo |-> s[PrevValid(s, i)], hi |-> s[NextValid(s, i)],
              k |-> i - PrevValid(s, i),
              n |-> NextValid(s, i) - PrevValid(s, i)]]

\* .bfill() leaving the gaps as they are
Bfill_None(s) == s

\* .bfill(): a gap takes the next value after it
Bfill(s) ==
    [i \in 1..Len(s) |->
        IF s[i] # NaN \/ NextValid(s, i) = 0 THEN s[i] ELSE s[NextValid(s, i)]]

\* .ffill(): a gap takes the last value before it
Ffill(s) ==
    [i \in 1..Len(s) |->
        IF s[i] # NaN \/ PrevValid(s, i) = 0 THEN s[i] ELSE s[PrevValid(s, i)]]

\* line 308: df[metric].interpolate().bfill().ffill(), the series handed to
\* savgol_filter
FilledSeries(rows, metric) ==
    Ffill(Bfill(Interpolate(MetricSeries(rows, metric) \o <<>>) \o <<>>) \o <<>>)
        \o <<>>

\* the positions of the runs whose feature file exists, in list order
Contributors(fs) ==
    SortedSeq({k \in 1..Len(fs) : fs[k]["features"].kind # "absent"})

\* lines 313-315: the table of one metric, its columns named after the
\* contributing run folders and its rows labelled by the union of their
\* timestamps
SummaryTable(fs, names, contributors) ==
    [kind |-> "table",
     columns |-> [k \in 1..Len(contributors) |-> names[contributors[k]]],
     index |-> UNION {{fs[contributors[k]]["features"].rows[i].timestamp :
                           i \in 1..Len(fs[contributors[k]]["features"].rows)} :
                      k \in 1..Len(contributors)}]

\* compile_experiment_traces(directory, folders, window_length, polyorder):
\* nothing is caught, and the tables are written after the loop over the runs
compile_experiment_traces(fs, names, old, window_length, polyorder, evenOk) ==
    LET contributors == Contributors(fs)
        failing == {k \in 1..Len(contributors) :
                      CompileError(fs[contributors[k]]["features"],
                                   window_length, polyorder, evenOk) # "none"}
        filled(last) ==
            [k \in 1..last |->
                [m \in DOMAIN old |->
                    FilledSeries(fs[contributors[k]]["features"].rows, m)]]
    IN  IF failing # {}
        THEN LET first == CHOOSE k \in failing : \A j \in failing : k <= j
             IN  [summary |-> old, wrote |-> {},
                  filled |-> filled(first),
                  exc |-> CompileError(fs[contributors[first]]["features"],
                                       window_length, polyorder, evenOk)]
        ELSE IF contributors = <<>>
        THEN [summary |-> old, wrote |-> {}, filled |-> <<>>, exc |-> "none"]
        ELSE [summary |-> [m \in DOMAIN old |->
                              SummaryTable(fs, names, contributors)],
              wrote |-> {Metrics[k] : k \in 1..3},
              filled |-> filled(Len(contributors)),
              exc |-> "none"]

(****************************** stage steps ********************************)
NoSummary ==
    [m \in {"max_intensity", "peak_wavelength", "fwhm_ev"} |-> Absent]

\* the data pipeline drives no instrument
NoFlow == [ob |-> <<>>, mux |-> <<>>, muxd |-> <<>>, stirrer |-> <<>>]

NoLocal ==
    [tp |-> <<>>, skipped |-> FALSE, exc |-> "none", mode |-> "none",
     origin |-> <<>>, scaling |-> <<>>, window_length |-> 0, polyorder |-> 0,
     peaks |-> <<>>, filled |-> <<>>]

\* InputKeys with the Feature Extractor opening the merged file
InputKeys_ExtractFromMerged(stage) ==
    CASE stage = "standardize" -> {"raw_nir", "raw_vis"}
      [] stage = "smooth" -> {"cleaned_nir", "cleaned_vis"}
      [] stage = "merge" -> {"smoothed_nir", "smoothed_vis"}
      [] stage = "plot" -> {"smoothed_vis", "smoothed_nir", "merged"}
      [] stage = "extract" -> {"merged"}
      [] OTHER -> {"features"}

\* the files of a run folder that a stage opens for reading: corrected_data
\* (line 55), cleaned_data (line 99), smoothed_data (lines 131-132), the
\* plot_configs (lines 188-192), smoothed_data/Emission_nir_smoothed.csv
\* (line 231) and Emission_features_nir.csv (line 300)
InputKeys(stage) ==
    CASE stage = "standardize" -> {"raw_nir", "raw_vis"}
      [] stage = "smooth" -> {"cleaned_nir", "cleaned_vis"}
      [] stage = "merge" -> {"smoothed_nir", "smoothed_vis"}
      [] stage = "plot" -> {"smoothed_vis", "smoothed_nir", "merged"}
      [] stage = "extract" -> {"smoothed_nir"}
      [] OTHER -> {"features"}

\* the record of a stage call on the current run: the files it wrote and the
\* existing files it opened
Executed(stage, wrote) ==
    [stage |-> stage, run |-> run, wrote |-> wrote,
     read |-> {k \in InputKeys(stage) : files[run][k].kind # "absent"}]

\* a call of standardize_time_axis on the current run; control goes to next
\* when it returns and to "raised" when an exception leaves it
StandardizeStep(next) ==
    /\ pc = "standardize"
    /\ \E r \in {standardize_time_axis(files[run], folders[run], params)} :
           /\ files' = [files EXCEPT ![run] = r.files]
           /\ trace' = Append(trace,
                  [Executed("standardize", r.wrote) EXCEPT
                      !.read = IF r.skipped THEN {} ELSE @])
           /\ log' = log \o r.logged
           /\ local' = [local EXCEPT !.tp = r.tp, !.skipped = r.skipped,
                                     !.exc = r.exc]
           /\ pc' = IF r.exc = "none" THEN next ELSE "raised"
    /\ UNCHANGED <<flow, params, folders, summary, run>>

\* whether the run holds a cleaned frame without columns
HasEmptyCleaned(f) ==
    \E k \in {"cleaned_nir", "cleaned_vis"} :
        f[k].kind = "frame" /\ NCols(f[k]) = 0

\* a call of apply_smoothing on the current run
SmoothStep(next, window_length, polyorder) ==
    /\ pc = "smooth"
    /\ \E emptyOk \in IF HasEmptyCleaned(files[run]) THEN BOOLEAN ELSE {TRUE},
          evenOk \in IF window_length % 2 = 0 THEN BOOLEAN ELSE {TRUE} :
         \E r \in {apply_smoothing(files[run], window_length, polyorder,
                                   emptyOk, evenOk)} :
             /\ files' = [files EXCEPT ![run] = r.files]
             /\ trace' = Append(trace, Executed("smooth", r.wrote))
             /\ log' = log \o r.logged
    /\ local' = [local EXCEPT !.window_length = window_length,
                              !.polyorder = polyorder]
    /\ pc' = next
    /\ UNCHANGED <<flow, params, folders, summary, run>>

\* a call of merge_vis_nir_spectra on the current run
MergeStep(next, stitch_wavelength, stitch_window, min_signal_threshold) ==
    /\ pc = "merge"
    /\ \E r \in {merge_vis_nir_spectra(files[run], stitch_wavelength,
                                       stitch_window, min_signal_threshold)} :
           /\ files' = [files EXCEPT ![run] = r.files]
           /\ trace' = Append(trace, Executed("merge", r.wrote))
           /\ log' = log \o r.logged
           /\ local' = [local EXCEPT !.mode = r.mode, !.origin = r.origin,
                                     !.scaling = r.scaling]
    /\ pc' = next
    /\ UNCHANGED <<flow, params, folders, summary, run>>

\* a call of plot_reaction_heatmap on the current run
PlotStep(next) ==
    /\ pc = "plot"
    /\ \E emptyOk \in BOOLEAN :
         \E r \in {plot_reaction_heatmap(files[run], emptyOk)} :
             /\ files' = [files EXCEPT ![run] = r.files]
             /\ trace' = Append(trace, Executed("plot", r.wrote))
             /\ log' = log \o r.logged
    /\ pc' = next
    /\ UNCHANGED <<flow, params, folders, summary, run, local>>

\* a call of extract_spectral_features on the current run
ExtractStep(next, intensity_threshold, time_threshold) ==
    /\ pc = "extract"
    /\ \E peaks \in EvPeaks(files[run]["smoothed_nir"]) :
         \E r \in {extract_spectral_features(files[run], intensity_threshold,
                                             time_threshold, peaks)} :
           /\ files' = [files EXCEPT ![run] = r.files]
           /\ trace' = Append(trace, Executed("extract", r.wrote))
           /\ local' = [local EXCEPT !.exc = r.exc, !.peaks = peaks]
           /\ pc' = IF r.exc = "none" THEN next ELSE "raised"
    /\ UNCHANGED <<flow, params, folders, summary, run, log>>

\* the call of compile_experiment_traces on the list of run folders
CompileStep(next, window_length, polyorder) ==
    /\ pc = "compile"
    /\ \E evenOk \in IF window_length % 2 = 0 THEN BOOLEAN ELSE {TRUE} :
         \E r \in {compile_experiment_traces(files, folders, summary,
                                             window_length, polyorder, evenOk)} :
           /\ summary' = r.summary
           /\ trace' = Append(trace,
                  [stage |-> "compile", run |-> 0, wrote |-> r.wrote,
                   read |-> {k \in InputKeys("compile") :
                                \E j \in 1..Len(files) :
                                    files[j][k].kind # "absent"}])
           /\ local' = [local EXCEPT !.exc = r.exc, !.filled = r.filled]
           /\ pc' = IF r.exc = "none" THEN next ELSE "raised"
    /\ UNCHANGED <<flow, params, folders, files, run, log>>

(***************************** process_data.main ***************************)
NoDirectory == [kind |-> "nodir"]

\* lines 17-33: the data directory and the parameters table
LoadParams ==
    /\ pc = "start"
    /\ IF params.kind \in {"nodir", "absent"}
       THEN /\ log' = Append(log, [level |-> "error", stage |-> "main",
                                   band |-> "none"])
            /\ pc' = "done"
       ELSE /\ log' = log
            /\ pc' = "loop"
    /\ UNCHANGED <<flow, params, folders, files, summary, run, trace, local>>

\* line 38: the for statement takes the next run folder, or ends the loop
LoopNext ==
    /\ pc = "loop"
    /\ IF run < Len(folders)
       THEN run' = run + 1 /\ pc' = "standardize"
       ELSE run' = run /\ pc' = "compile"
    /\ local' = NoLocal
    /\ UNCHANGED <<flow, params, folders, files, summary, trace, log>>

Standardize == StandardizeStep("smooth")

Smooth == SmoothStep("merge", DEFAULT_WINDOW_LENGTH, DEFAULT_POLYORDER)

Merge ==
    MergeStep("plot", STITCH_WAVELENGTH, STITCH_WINDOW, MIN_SIGNAL_THRESHOLD)

Plot == PlotStep("extract")

Extract == ExtractStep("loop", INTENSITY_THRESHOLD, TIME_THRESHOLD)

Compile == CompileStep("done", DEFAULT_WINDOW_LENGTH, DEFAULT_POLYORDER)

Next ==
    \/ LoadParams
    \/ LoopNext
    \/ Standardize
    \/ Smooth
    \/ Merge
    \/ Plot
    \/ Extract
    \/ Compile

(******************** inputs of the Standardizer calls *********************)
Table(columns, rows) == [kind |-> "table", columns |-> columns, rows |-> rows]

ParamColumns == {"reaction_id", "num_measurements", "frequency"}

ParamRow(id, n, f) ==
    [reaction_id |-> id, num_measurements |-> n, frequency |-> f]

\* parameter tables: reaction 2 first, reaction 1 second with every
\* num_measurements and frequency of the bounds; and tables lacking a column
StdTables ==
    {Table(ParamColumns, <<ParamRow(2, 1, 1), ParamRow(1, n, f)>>) :
        n \in 0..MaxMeasurements, f \in 0..MaxFrequency}
    \cup {Table(ParamColumns \ {c}, <<ParamRow(2, 1, 1), ParamRow(1, 2, 1)>>) :
            c \in ParamColumns}

\* run folder names, character by character
StdFolderNames ==
    { <<"1", "_", "a">>, <<"0", "2", "_", "a">>, <<"2">>, <<"3", "_", "a">>,
      <<"-", "1", "_", "a">>, <<"1", "a", "_", "2">>, <<"x", "1", "_", "a">>,
      <<"_", "1">> }

\* the intensity of raw row r, acquisition c: distinct for distinct cells
RawCell(r, c) == (10 * r + c) * ValUnit

RawFrame(index, ncols) ==
    Frame(index, [c \in 1..ncols |-> c],
          [r \in 1..Len(index) |-> [c \in 1..ncols |-> RawCell(r, c)]])

\* raw wavelength axes around the visible cutoff
StdIndexes ==
    { <<VIS_CUTOFF * WlUnit - 1, VIS_CUTOFF * WlUnit, VIS_CUTOFF * WlUnit + 1>>,
      <<(VIS_CUTOFF - 100) * WlUnit, (VIS_CUTOFF + 100) * WlUnit>>,
      <<(VIS_CUTOFF - 1) * WlUnit>> }

StdRawFiles ==
    {Absent, Malformed}
    \cup {RawFrame(index, c) : index \in StdIndexes, c \in 0..MaxCols}

InitStandardize ==
    /\ params \in StdTables
    /\ folders \in {<<name>> : name \in StdFolderNames}
    /\ files \in {<<NoOutputs(n, v)>> : n \in StdRawFiles, v \in StdRawFiles}
    /\ summary = NoSummary
    /\ pc = "standardize"
    /\ run = 1
    /\ trace = <<>>
    /\ log = <<>>
    /\ local = NoLocal
    /\ flow = NoFlow

CallStandardize == StandardizeStep("returned")

NextStandardize == CallStandardize

SpecStandardize == InitStandardize /\ [][NextStandardize]_vars

(********************* inputs of the Merger calls **************************)
\* cleaned near-infrared wavelength axes: inside the overlap window, two
\* wavelengths closer than the Smoother's rounding step, outside the window
MergeNirIndexes ==
    { <<(STITCH_WAVELENGTH - STITCH_WINDOW) * WlUnit, STITCH_WAVELENGTH * WlUnit,
        (STITCH_WAVELENGTH + STITCH_WINDOW) * WlUnit>>,
      <<STITCH_WAVELENGTH * WlUnit - 4, STITCH_WAVELENGTH * WlUnit + 4,
        (STITCH_WAVELENGTH + STITCH_WINDOW) * WlUnit + 1>>,
      <<(STITCH_WAVELENGTH - 30) * WlUnit, (STITCH_WAVELENGTH + 20) * WlUnit,
        (STITCH_WAVELENGTH + 30) * WlUnit>> }

\* cleaned visible wavelength axes
MergeVisIndexes ==
    { <<(STITCH_WAVELENGTH - 20) * WlUnit, (STITCH_WAVELENGTH - STITCH_WINDOW) * WlUnit,
        STITCH_WAVELENGTH * WlUnit>>,
      <<(STITCH_WAVELENGTH - 5) * WlUnit, (STITCH_WAVELENGTH + 5) * WlUnit,
        (STITCH_WAVELENGTH + STITCH_WINDOW) * WlUnit>>,
      <<(STITCH_WAVELENGTH - 130) * WlUnit, (STITCH_WAVELENGTH - 80) * WlUnit,
        (STITCH_WAVELENGTH - 30) * WlUnit>> }

\* the time headers of a cleaned frame
MergeColumns == { <<0>>, <<0, 1>>, <<0, 2>> }

\* the intensities of one column of three rows, in instrument units
MergeNirPatterns == { <<60, 60, 60>>, <<30, 90, 120>>, <<0, 0, 0>> }
MergeVisPatterns == { <<50, 50, 50>>, <<100, 40, 100>>, <<20, 30, 40>> }

CleanedFrame(index, columns, cols) ==
    Frame(index, columns,
          [r \in 1..Len(index) |->
              [c \in 1..Len(columns) |-> cols[c][r] * ValUnit]])

CleanedFrames(indexes, patterns) ==
    {CleanedFrame(index, columns, cols) :
        index \in indexes,
        columns \in MergeColumns,
        cols \in [1..2 -> patterns]}

WithCleaned(cleaned_nir, cleaned_vis) ==
    [NoOutputs(Absent, Absent) EXCEPT !["cleaned_nir"] = cleaned_nir,
                                      !["cleaned_vis"] = cleaned_vis]

\* window_length and polyorder of the apply_smoothing calls
SmoothArgs == { <<3, 2>>, <<3, 1>>, <<5, 2>>, <<2, 1>> }

InitMerge ==
    /\ params = Absent
    /\ folders = << <<"1", "_", "a">> >>
    /\ files \in {<<WithCleaned(n, v)>> :
                    n \in {Absent} \cup CleanedFrames(MergeNirIndexes, MergeNirPatterns),
                    v \in {Absent} \cup CleanedFrames(MergeVisIndexes, MergeVisPatterns)}
    /\ summary = NoSummary
    /\ pc = "smooth"
    /\ run = 1
    /\ trace = <<>>
    /\ log = <<>>
    /\ local = NoLocal
    /\ flow = NoFlow

CallSmooth == \E a \in SmoothArgs : SmoothStep("merge", a[1], a[2])

CallMerge ==
    MergeStep("returned", STITCH_WAVELENGTH, STITCH_WINDOW, MIN_SIGNAL_THRESHOLD)

NextMerge == CallSmooth \/ CallMerge

SpecMerge == InitMerge /\ [][NextMerge]_vars

(********************* inputs of the Feature Extractor *********************)
\* the wavelength axis of the smoothed NIR frames: 900, 950 and 1000 nm
ExtractIndex == <<900 * WlUnit, 950 * WlUnit, 1000 * WlUnit>>

\* timestamp headers on both sides of the time threshold
ExtractColumns ==
    { <<0>>, <<TIME_THRESHOLD, TIME_THRESHOLD + 1>>,
      <<TIME_THRESHOLD \div 2, TIME_THRESHOLD + 50>>,
      <<TIME_THRESHOLD, TIME_THRESHOLD + 1, 2 * TIME_THRESHOLD>> }

\* the intensities of one column, in 1/ValUnit: peaks just below, at and
\* above the intensity threshold, a silent column and a peak on the first row
ExtractPatterns ==
    { <<10 * ValUnit, INTENSITY_THRESHOLD * ValUnit - 1, 20 * ValUnit>>,
      <<10 * ValUnit, INTENSITY_THRESHOLD * ValUnit, 20 * ValUnit>>,
      <<30 * ValUnit, 80 * ValUnit, 35 * ValUnit>>,
      <<0, 0, 0>>,
      <<60 * ValUnit, 10 * ValUnit, 5 * ValUnit>> }

\* the same axis with the rows in descending wavelength order
ExtractIndexDescending == <<1000 * WlUnit, 950 * WlUnit, 900 * WlUnit>>

\* a line at 920 nm sampled every 10 nm from 900 nm, at the timestamp 5
ExampleFrame ==
    Frame([r \in 1..5 |-> (900 + 10 * (r - 1)) * WlUnit], <<5>>,
          <<<<10 * ValUnit>>, <<50 * ValUnit>>, <<100 * ValUnit>>,
            <<50 * ValUnit>>, <<10 * ValUnit>>>>)

\* a wavelength axis of five rows, 100 nm apart from 900 nm
WideIndex == [r \in 1..5 |-> (900 + 100 * (r - 1)) * WlUnit]

\* columns of five rows, in 1/ValUnit: two lines with the stronger raw line
\* at 1000 nm and the stronger energy-space line at 1200 nm, two lines of
\* equal raw height, two lines of equal energy-space height, a column below
\* zero throughout, a line whose right tail stays above half of it, and a
\* column that peaks at zero
WidePatterns ==
    { <<10 * ValUnit, 100 * ValUnit, 10 * ValUnit, 99 * ValUnit, 10 * ValUnit>>,
      <<10 * ValUnit, 100 * ValUnit, 10 * ValUnit, 100 * ValUnit, 10 * ValUnit>>,
      <<10 * ValUnit, 144 * ValUnit, 10 * ValUnit, 100 * ValUnit, 10 * ValUnit>>,
      <<-20 * ValUnit, -10 * ValUnit, -20 * ValUnit, -30 * ValUnit, -30 * ValUnit>>,
      <<5 * ValUnit, 20 * ValUnit, 100 * ValUnit, 60 * ValUnit, 70 * ValUnit>>,
      <<-10 * ValUnit, 0, -10 * ValUnit, -5 * ValUnit, -5 * ValUnit>> }

\* smoothed NIR frames of one such column at the timestamp of the example
WideFrames ==
    {Frame(WideIndex, ExampleFrame.columns, [r \in 1..5 |-> <<col[r]>>]) :
        col \in WidePatterns}

SmoothedFrames ==
    {Frame(index, columns,
           [r \in 1..3 |-> [c \in 1..Len(columns) |-> cols[c][r]]]) :
        index \in {ExtractIndex, ExtractIndexDescending},
        columns \in ExtractColumns, cols \in [1..3 -> ExtractPatterns]}
    \cup {Frame(<<>>, <<0, 1>>, <<>>), Frame(ExtractIndex, <<>>, <<<<>>, <<>>, <<>>>>),
          ExampleFrame}
    \cup WideFrames

\* what the run folder holds besides the smoothed NIR file: nothing, readable
\* cleaned, visible and merged files, or unreadable visible and merged files
ExtractOtherFiles ==
    { [cleaned_nir |-> Absent, smoothed_vis |-> Absent, merged |-> Absent],
      [cleaned_nir |-> ExampleFrame, smoothed_vis |-> ExampleFrame,
       merged |-> AsRational(ExampleFrame)],
      [cleaned_nir |-> Absent, smoothed_vis |-> Malformed, merged |-> Malformed] }

InitExtract ==
    /\ params = Absent
    /\ folders = << <<"1", "_", "a">> >>
    /\ files \in {<<[NoOutputs(Absent, Absent) EXCEPT
                        !["smoothed_nir"] = df,
                        !["cleaned_nir"] = others.cleaned_nir,
                        !["smoothed_vis"] = others.smoothed_vis,
                        !["merged"] = others.merged]>> :
                    df \in {Absent, Malformed} \cup SmoothedFrames,
                    others \in ExtractOtherFiles}
    /\ summary = NoSummary
    /\ pc = "extract"
    /\ run = 1
    /\ trace = <<>>
    /\ log = <<>>
    /\ local = NoLocal
    /\ flow = NoFlow

CallExtract == ExtractStep("returned", INTENSITY_THRESHOLD, TIME_THRESHOLD)

NextExtract == CallExtract

SpecExtract == InitExtract /\ [][NextExtract]_vars

(************************ inputs of the Aggregator *************************)
\* the number of records of a feature file: from the window of the calls up
MinTrace == 3
MaxTrace == 5

\* a cell of the peak_wavelength series: absent, or one of two wavelengths
TraceCells == {NaN, Num(900 * WlUnit), Num(960 * WlUnit)}

\* the linewidth read from the file for a peak_wavelength cell: the series
\* is the mirror of the peak_wavelength series, with two other numbers
WidthCell(cell) ==
    IF cell = NaN THEN NaN
    ELSE IF cell = Num(900 * WlUnit) THEN Num(4) ELSE Num(1)

\* feature files of MinTrace..MaxTrace records with gaps anywhere
FeatureTables ==
    UNION {{Features([i \in 1..len |->
                         [timestamp |-> 2 * (i - 1),
                          max_intensity |-> 10 * i * ValUnit,
                          peak_wavelength |-> cells[i],
                          fwhm_ev |-> WidthCell(cells[len + 1 - i])]]) :
               cells \in [1..len -> TraceCells]} :
           len \in MinTrace..MaxTrace}

\* the feature file of the second run: none, or one without gaps
OtherFeatures ==
    {Absent,
     Features([i \in 1..MinTrace |->
                  [timestamp |-> i, max_intensity |-> 50 * ValUnit,
                   peak_wavelength |-> Num(930 * WlUnit), fwhm_ev |-> Num(2)]])}

InitCompile ==
    /\ params = Absent
    /\ folders = << <<"1", "_", "a">>, <<"2", "_", "b">> >>
    /\ files \in {<<[NoOutputs(Absent, Absent) EXCEPT !["features"] = one],
                    [NoOutputs(Absent, Absent) EXCEPT !["features"] = other]>> :
                    one \in FeatureTables, other \in OtherFeatures}
    /\ summary = NoSummary
    /\ pc = "compile"
    /\ run = 2
    /\ trace = <<>>
    /\ log = <<>>
    /\ local = NoLocal
    /\ flow = NoFlow

CallCompile == CompileStep("returned", MinTrace, 1)

NextCompile == CallCompile

SpecCompile == InitCompile /\ [][NextCompile]_vars

(************************** inputs of the pipeline *************************)
\* the rows of the raw frames of the pipeline, enough for the default window
PipeRows == DEFAULT_WINDOW_LENGTH

\* wavelength axes of PipeRows rows, 10 nm apart: the NIR axis from 900 nm,
\* the visible axis ending at the stitch wavelength
PipeNirIndex == [r \in 1..PipeRows |-> (900 + 10 * (r - 1)) * WlUnit]
PipeVisIndex ==
    [r \in 1..PipeRows |-> (STITCH_WAVELENGTH - 10 * (PipeRows - r)) * WlUnit]

\* an emission line centred on the middle row that grows with the column,
\* in 1/ValUnit: a parabola over the rows, which the default filter (one
\* window over all PipeRows rows, polyorder 2) reproduces
PipeCell(r, c) == (c + 1) * (36 - (r - 6) * (r - 6)) * 10

PipeFrame(index, nrows) ==
    Frame(SubSeq(index, 1, nrows),
          [c \in 1..PipeRows |-> c],
          [r \in 1..nrows |-> [c \in 1..PipeRows |-> PipeCell(r, c)]])

PipeRawNir == {Absent, Malformed, PipeFrame(PipeNirIndex, PipeRows), PipeFrame(PipeNirIndex, 3)}
PipeRawVis == {Absent, PipeFrame(PipeVisIndex, PipeRows)}

\* parameter tables: reaction 2 measured PipeRows times at frequency 1;
\* reaction 1 as long, twice as long at frequency 2, shorter than the
\* aggregation window, or at frequency 0; and a table without the frequency
PipeTables ==
    {Table(ParamColumns, <<ParamRow(2, PipeRows, 1), ParamRow(1, nf[1], nf[2])>>) :
        nf \in { <<PipeRows, 1>>, <<2 * PipeRows, 2>>, <<5, 1>>, <<PipeRows, 0>> }}
    \cup {Table(ParamColumns \ {"frequency"},
                <<ParamRow(2, PipeRows, 1), ParamRow(1, PipeRows, 1)>>)}

PipeFolderLists ==
    { << <<"1", "_", "a">> >>,
      << <<"1", "_", "a">>, <<"2", "_", "b">> >>,
      << <<"2", "_", "b">>, <<"1", "_", "a">> >>,
      << <<"3", "_", "c">>, <<"2", "_", "b">> >> }

\* the raw files of the run folders
PipeRawFiles ==
    {NoOutputs(nir, vis) : nir \in PipeRawNir, vis \in PipeRawVis}

\* the state main starts in: the raw files, and in the first run folder
\* possibly a smoothed NIR file left there that cannot be read
Init ==
    /\ params \in {NoDirectory, Absent} \cup PipeTables
    /\ folders \in IF params = NoDirectory THEN {<<>>} ELSE PipeFolderLists
    /\ files \in {[k \in 1..Len(folders) |->
                      IF k = 1 THEN [raw[k] EXCEPT !["smoothed_nir"] = earlier]
                      ELSE raw[k]] :
                    raw \in [1..Len(folders) -> PipeRawFiles],
                    earlier \in {Absent, Malformed}}
    /\ summary = NoSummary
    /\ pc = "start"
    /\ run = 0
    /\ trace = <<>>
    /\ log = <<>>
    /\ local = NoLocal
    /\ flow = NoFlow

Spec == Init /\ [][Next]_vars

(***************************** hardware drivers ****************************)
\* the values the SDK takes and returns are integers; None (no reading) and
\* the -1 of MuxDistribution.get_valve are modelled by -1
None == 0 - 1

MAX_VALVES == 16

\* self.retry_count of FlowControl.__init__
retry_count == 3

\* whether an SDK call on the handle instr_id can succeed: a handle that was
\* never opened, or is closed, makes every call fail; otherwise the
\* instrument decides
Answers(instr_id) == IF instr_id < 0 THEN {FALSE} ELSE BOOLEAN

\* MuxWire.set_all(states): the array is stored, then sent to the instrument,
\* which takes it over when it accepts the command
set_all(mux, states, accepted) ==
    [mux EXCEPT !.valve_states = states,
                !.valves = IF accepted THEN states ELSE @]

\* MuxWire.toggle(valve_idx, open_valve)
toggle(mux, valve_idx, open_valve, accepted) ==
    IF valve_idx \notin 1..MAX_VALVES THEN mux
    ELSE set_all(mux,
                 [mux.valve_states EXCEPT ![valve_idx] = IF open_valve THEN 1 ELSE 0],
                 accepted)

\* MuxWire.close_all()
close_all(mux, accepted) == set_all(mux, [v \in 1..MAX_VALVES |-> 0], accepted)

\* MuxWire.get_valve_state(valve_idx): the state the instrument reports
get_valve_state(mux, valve_idx, answered) ==
    IF mux.instr_id < 0 \/ ~answered \/ valve_idx \notin 1..MAX_VALVES
    THEN None
    ELSE mux.valves[valve_idx]

\* MuxWire.set_trigger_out(high)
set_trigger_out(mux, high, accepted) ==
    IF mux.instr_id < 0 \/ ~accepted THEN mux
    ELSE [mux EXCEPT !.trig = IF high THEN 1 ELSE 0]

\* PressureController.set_pressure(channel, mbar): the cached setpoint
\* follows only a command the instrument accepted
set_pressure(ob, channel, mbar, accepted) ==
    IF ob.instr_id < 0 \/ ~accepted THEN ob
    ELSE [ob EXCEPT !.setpoints[channel] = mbar, !.press[channel] = mbar]

\* PressureController.get_setpoint(channel): the cached setpoint
get_setpoint(ob, channel) == ob.setpoints[channel]

\* MuxDistribution.get_valve()
get_valve(muxd, answered) ==
    IF muxd.instr_id < 0 \/ ~answered THEN None ELSE muxd.position

\* MuxDistribution.switch_valve(valve_number, direction): reached says whether
\* the command is accepted and the position is reported before the timeout
switch_valve(muxd, valve_number, answered, reached) ==
    IF muxd.instr_id < 0 \/ get_valve(muxd, answered) = valve_number \/ ~reached
    THEN muxd
    ELSE [muxd EXCEPT !.position = valve_number]

\* close() of the three Elveflow drivers: the handle is released
close(driver) == [driver EXCEPT !.instr_id = None]

\* StirrerController.set_speed(speed)
set_speed(stirrer, speed, accepted) ==
    IF ~stirrer.is_open \/ ~accepted THEN stirrer
    ELSE [stirrer EXCEPT !.rpm = speed]

\* StirrerController.close(): stops the stirrer, then closes the port
close_stirrer(stirrer, accepted) ==
    IF ~stirrer.is_open THEN stirrer
    ELSE [set_speed(stirrer, 0, accepted) EXCEPT !.is_open = FALSE]

(******************************* FlowControl *******************************)
\* the locals of the running FlowControl operation: the labels to return to,
\* the arguments, the loop variables of _toggle_valve_retry with the
\* read-backs it got, and where an exception goes
NoCall ==
    [stack |-> <<>>, handler |-> "raised", exc |-> "none", arg |-> "none",
     fluid |-> "none", tube_number |-> 0, valve_number |-> 0,
     desired_state |-> 0, attempt |-> 0, toggles |-> 0, readbacks |-> <<>>,
     result |-> "none", by |-> "none",
     step |-> 0, rinse |-> 0, spectra |-> 0, closed |-> 0]

\* the variables the liquid handling leaves alone
data == <<params, folders, files, summary, log>>

\* return of the running operation to its caller
Return(loc) == [loc EXCEPT !.stack = Tail(@)]

\* an exception leaves the running operation and its callers
Raised(loc, exc) == [loc EXCEPT !.stack = <<>>, !.exc = exc]

\* entry of _toggle_valve_retry(valve_number, desired_state, delay), called
\* by the operation by
CallToggle(loc, by, valve_number, desired_state) ==
    [loc EXCEPT !.valve_number = valve_number, !.desired_state = desired_state,
                !.attempt = 0, !.toggles = 0, !.readbacks = <<>>,
                !.result = "running", !.by = by]

\* the test of line 70 that never succeeds
Confirmed_Never(state, desired_state) == FALSE

\* line 70: the read-back confirms the desired state
Confirmed(state, desired_state) == state = desired_state

\* lines 66-67: one toggle command of the retry loop
ToggleValve ==
    /\ pc = "toggle"
    /\ \E accepted \in Answers(flow.mux.instr_id) :
           flow' = [flow EXCEPT !.mux = toggle(@, local.valve_number,
                                               local.desired_state = 1, accepted)]
    /\ local' = [local EXCEPT !.toggles = @ + 1]
    /\ pc' = "readback"
    /\ UNCHANGED <<data, run, trace>>

\* lines 70-76: the read-back; return, next attempt, or FlowControlError
ReadBack ==
    /\ pc = "readback"
    /\ \E answered \in Answers(flow.mux.instr_id) :
         LET state == get_valve_state(flow.mux, local.valve_number, answered)
             seen == [local EXCEPT !.readbacks = Append(@, state),
                                   !.attempt = @ + 1]
         IN  IF Confirmed(state, local.desired_state)
             THEN /\ local' = [Return(seen) EXCEPT !.result = "returned"]
                  /\ pc' = Head(local.stack)
             ELSE IF seen.attempt < retry_count
             THEN /\ local' = seen
                  /\ pc' = "toggle"
             ELSE /\ local' = [Raised(seen, "FlowControlError") EXCEPT
                                  !.result = "raised"]
                  /\ pc' = local.handler
    /\ UNCHANGED <<data, run, trace, flow>>

\* the valve state each argument of switch_v1_source and of switch_v2_outlet
\* stands for
V1Targets == [tol |-> 0, pre |-> 1]
V2Targets == [waste |-> 0, tube |-> 1]

\* switch_v1_source (lines 99-112) and switch_v2_outlet (lines 121-133) up
\* to their call of _toggle_valve_retry: the argument is checked, the valve
\* is read, the channel is vented when its cached setpoint is not 0
SwitchValve(here, valve, channel, targets) ==
    /\ pc = here
    /\ IF local.arg \notin DOMAIN targets
       THEN /\ local' = Raised(local, "ValueError")
            /\ pc' = local.handler
            /\ flow' = flow
       ELSE \E answered \in Answers(flow.mux.instr_id),
               accepted \in Answers(flow.ob.instr_id) :
              IF get_valve_state(flow.mux, valve, answered) # targets[local.arg]
              THEN /\ flow' = IF get_setpoint(flow.ob, channel) # 0
                              THEN [flow EXCEPT !.ob = set_pressure(@, channel, 0, accepted)]
                              ELSE flow
                   /\ local' = CallToggle(local, here, valve, targets[local.arg])
                   /\ pc' = "toggle"
              ELSE /\ flow' = flow
                   /\ local' = Return(local)
                   /\ pc' = Head(local.stack)
    /\ UNCHANGED <<data, run, trace>>

SwitchV1Source == SwitchValve("switch_v1_source", 1, 1, V1Targets)

SwitchV2Outlet == SwitchValve("switch_v2_outlet", 2, 2, V2Targets)

\* the source and the injection valve of the three fluids (lines 151-170)
SourceOf == [tol |-> "tol", s |-> "pre", ag |-> "pre"]
InjectValve == [tol |-> 3, s |-> 4, ag |-> 5]

\* lines 153-154, 160-161, 167-168: the source valve is read and switched
\* when it is on the other source
Inject ==
    /\ pc = "inject"
    /\ \E answered \in Answers(flow.mux.instr_id) :
         IF get_valve_state(flow.mux, 1, answered) # V1Targets[SourceOf[local.fluid]]
         THEN /\ local' = [local EXCEPT !.arg = SourceOf[local.fluid],
                                        !.stack = <<"ensure">> \o @]
              /\ pc' = "switch_v1_source"
         ELSE /\ local' = local
              /\ pc' = "ensure"
    /\ UNCHANGED <<data, run, trace, flow>>

\* _ensure_p1_pressure(1000) (lines 53-56), then the entry of pulse_valve
EnsurePressure ==
    /\ pc = "ensure"
    /\ \E accepted \in Answers(flow.ob.instr_id) :
         flow' = IF get_setpoint(flow.ob, 1) # 1000
                 THEN [flow EXCEPT !.ob = set_pressure(@, 1, 1000, accepted)]
                 ELSE flow
    /\ local' = [local EXCEPT !.valve_number = InjectValve[local.fluid]]
    /\ pc' = "pulse_valve"
    /\ UNCHANGED <<data, run, trace>>

\* line 140: pulse_valve opens the valve
PulseOpen ==
    /\ pc = "pulse_valve"
    /\ local' = [CallToggle(local, "pulse_valve", local.valve_number, 1)
                    EXCEPT !.stack = <<"pulse_close">> \o @]
    /\ pc' = "toggle"
    /\ UNCHANGED <<data, run, trace, flow>>

\* lines 143-147: after the waiting loop pulse_valve closes the valve
PulseClose ==
    /\ pc = "pulse_close"
    /\ local' = CallToggle(local, "pulse_valve", local.valve_number, 0)
    /\ pc' = "toggle"
    /\ UNCHANGED <<data, run, trace, flow>>

\* lines 177-178: collect_product switches the outlet
Collect ==
    /\ pc = "collect_product"
    /\ local' = [local EXCEPT
                    !.arg = IF local.tube_number = 12 THEN "waste" ELSE "tube",
                    !.stack = <<"distribute">> \o @]
    /\ pc' = "switch_v2_outlet"
    /\ UNCHANGED <<data, run, trace, flow>>

\* lines 181-185: the distribution valve is moved when it is elsewhere,
\* after a vent of channel 2
Distribute ==
    /\ pc = "distribute"
    /\ \E answered \in Answers(flow.muxd.instr_id),
          reached \in Answers(flow.muxd.instr_id),
          accepted \in Answers(flow.ob.instr_id) :
         flow' = IF get_valve(flow.muxd, answered) # local.tube_number
                 THEN [flow EXCEPT
                          !.ob = set_pressure(@, 2, 0, accepted),
                          !.muxd = switch_valve(@, local.tube_number, answered, reached)]
                 ELSE flow
    /\ pc' = "pull"
    /\ UNCHANGED <<data, run, trace, local>>

\* line 187: vacuum on channel 2
Pull ==
    /\ pc = "pull"
    /\ \E accepted \in Answers(flow.ob.instr_id) :
         flow' = [flow EXCEPT !.ob = set_pressure(@, 2, 0 - 1000, accepted)]
    /\ pc' = "vent"
    /\ UNCHANGED <<data, run, trace, local>>

\* lines 189-190: channel 2 is vented and collect_product returns
Vent ==
    /\ pc = "vent"
    /\ \E accepted \in Answers(flow.ob.instr_id) :
         flow' = [flow EXCEPT !.ob = set_pressure(@, 2, 0, accepted)]
    /\ local' = Return(local)
    /\ pc' = Head(local.stack)
    /\ UNCHANGED <<data, run, trace>>

\* the five commands of stop() (lines 86-90), each with the instrument's
\* answer
StopCommands(answers) ==
    <<[call |-> "mux.set_trigger_out", accepted |-> answers[1]],
      [call |-> "mux.close_all", accepted |-> answers[2]],
      [call |-> "ob.set_pressure_1", accepted |-> answers[3]],
      [call |-> "ob.set_pressure_2", accepted |-> answers[4]],
      [call |-> "muxd.switch_valve", accepted |-> answers[5]]>>

\* FlowControl.stop() skipping the pressure channels
stop_KeepsPressure(fl, answers) ==
    [fl EXCEPT
        !.mux = close_all(set_trigger_out(@, FALSE, answers[1]), answers[2]),
        !.muxd = switch_valve(@, 11, answers[5], answers[5])]

\* FlowControl.stop() (lines 86-90)
stop(fl, answers) ==
    [fl EXCEPT
        !.mux = close_all(set_trigger_out(@, FALSE, answers[1]), answers[2]),
        !.ob = set_pressure(set_pressure(@, 1, 0, answers[3]), 2, 0, answers[4]),
        !.muxd = switch_valve(@, 11, answers[5], answers[5])]

\* a call of stop(): trace holds its commands from here on
Stop ==
    /\ pc = "stop"
    /\ \E answers \in [1..5 -> BOOLEAN] :
         /\ answers[1] \in Answers(flow.mux.instr_id)
         /\ answers[2] \in Answers(flow.mux.instr_id)
         /\ answers[3] \in Answers(flow.ob.instr_id)
         /\ answers[4] \in Answers(flow.ob.instr_id)
         /\ answers[5] \in Answers(flow.muxd.instr_id)
         /\ flow' = stop(flow, answers)
         /\ trace' = StopCommands(answers)
    /\ local' = Return(local)
    /\ pc' = Head(local.stack)
    /\ UNCHANGED <<data, run>>

(************************ FlowControl operations ***************************)
\* the instruments after construction: each Elveflow handle is open (0) or
\* its initialisation failed (-1), the cached setpoints are 0, the valves
\* and the distribution valve are where the last use left them
Rigs ==
    {[ob |-> [instr_id |-> ids[1], setpoints |-> <<0, 0>>, press |-> <<0, 0>>],
      mux |-> [instr_id |-> ids[2],
               valve_states |-> [v \in 1..MAX_VALVES |-> 0],
               valves |-> [v \in 1..MAX_VALVES |-> IF v \in open THEN 1 ELSE 0],
               trig |-> 0],
      muxd |-> [instr_id |-> ids[3], position |-> position],
      stirrer |-> [is_open |-> TRUE, rpm |-> 0]] :
        ids \in {<<0, 0, 0>>, <<None, 0, 0>>, <<0, None, 0>>, <<0, 0, None>>},
        open \in {{}, {1}, {2}}, position \in {11, 12}}

\* the calls of FlowControl operations: entry label and arguments
Operations ==
    {[pc |-> "switch_v1_source", arg |-> a, fluid |-> "none", tube |-> 0, valve |-> 0] :
        a \in {"tol", "pre", "both"}}
    \cup {[pc |-> "switch_v2_outlet", arg |-> a, fluid |-> "none", tube |-> 0, valve |-> 0] :
        a \in {"waste", "tube"}}
    \cup {[pc |-> "inject", arg |-> "none", fluid |-> f, tube |-> 0, valve |-> 0] :
        f \in {"tol", "s", "ag"}}
    \cup {[pc |-> "collect_product", arg |-> "none", fluid |-> "none", tube |-> t, valve |-> 0] :
        t \in {12, 3}}
    \cup {[pc |-> "pulse_valve", arg |-> "none", fluid |-> "none", tube |-> 0, valve |-> v] :
        v \in {3, MAX_VALVES + 1}}

InitFlow ==
    /\ params = NoDirectory
    /\ folders = <<>>
    /\ files = <<>>
    /\ summary = NoSummary
    /\ log = <<>>
    /\ run = 0
    /\ trace = <<>>
    /\ pc = "idle"
    /\ local = NoCall
    /\ flow \in Rigs

\* the caller starts the next operation once the last has returned; like
\* run_experiment.main it calls no operation after an exception
CallOperation ==
    /\ pc = "idle"
    /\ \E op \in Operations :
         /\ local' = [NoCall EXCEPT !.stack = <<"idle">>, !.arg = op.arg,
                                    !.fluid = op.fluid, !.tube_number = op.tube,
                                    !.valve_number = op.valve]
         /\ pc' = op.pc
    /\ UNCHANGED <<data, run, trace, flow>>

FlowStep ==
    \/ ToggleValve
    \/ ReadBack
    \/ SwitchV1Source
    \/ SwitchV2Outlet
    \/ Inject
    \/ EnsurePressure
    \/ PulseOpen
    \/ PulseClose
    \/ Collect
    \/ Distribute
    \/ Pull
    \/ Vent

NextFlow == CallOperation \/ FlowStep

\* the interpreter runs the operation that was called: every sleep and every
\* SDK call returns
SpecFlow == InitFlow /\ [][NextFlow]_vars /\ WF_vars(FlowStep)

(*************************** run_experiment.main ***************************)
\* the reactions of the plan that are run, and the spectra taken at most in
\* one measurement loop
MaxReactions == 2
MaxSpectra == 1

TOTAL_VOLUME == 2000
AG_CONC == 66
S_CONC == 66

\* generate_experiment_plan (lines 53-74): the volumes of the reaction k,
\* k <= 9, whose ratio is 11 - k, in hundredths of a microlitre
PlanRow(k) ==
    LET ratio == 11 - k
    IN  [tol |-> 0,
         ag |-> RoundHalfEven(100 * TOTAL_VOLUME * ratio * S_CONC,
                              AG_CONC + ratio * S_CONC),
         s |-> RoundHalfEven(100 * TOTAL_VOLUME * AG_CONC,
                             AG_CONC + ratio * S_CONC)]

\* lines 119-121: slope in tenths, intercept in hundredths of a microlitre
Calibration ==
    [ag |-> [slope |-> 4526, intercept |-> 5980],
     s |-> [slope |-> 5400, intercept |-> 7260],
     tol |-> [slope |-> 5803, intercept |-> 7880]]

\* lines 152-154: the order of the three inject_volume calls
Targets == <<"tol", "ag", "s">>

\* the state after setup_hardware and start_stirring(400): the handles are
\* open, the valves are closed, the distribution valve is where homing and
\* switch_valve(11) left it
InitExperiment ==
    /\ params = NoDirectory
    /\ folders = <<>>
    /\ files = <<>>
    /\ summary = NoSummary
    /\ log = <<>>
    /\ run = 0
    /\ trace = <<>>
    /\ pc = "main_loop"
    /\ local = [NoCall EXCEPT !.handler = "finally"]
    /\ flow \in {[rig EXCEPT !.stirrer.rpm = 400] :
                    rig \in {r \in Rigs : /\ r.mux.valves = r.mux.valve_states
                                          /\ r.ob.instr_id >= 0
                                          /\ r.mux.instr_id >= 0}}

\* line 138: the for statement takes the next reaction, or ends the loop
NextReaction ==
    /\ pc = "main_loop"
    /\ IF run < MaxReactions
       THEN /\ run' = run + 1
            /\ local' = [local EXCEPT !.step = 1, !.rinse = 0, !.spectra = 0]
            /\ pc' = "inject_volume"
       ELSE /\ run' = run
            /\ local' = local
            /\ pc' = "finally"
    /\ UNCHANGED <<data, trace, flow>>

\* one of the inject_volume calls of lines 152-154 (FlowControl.py lines
\* 212-238): no injection without a slope or for a negative duration
InjectVolume ==
    /\ pc = "inject_volume"
    /\ LET target == Targets[local.step]
           after == IF local.step < Len(Targets) THEN "inject_volume" ELSE "measure"
       IN  IF \/ Calibration[target].slope = 0
              \/ PlanRow(run)[target] < Calibration[target].intercept
           THEN /\ local' = [local EXCEPT !.step = @ + 1]
                /\ pc' = after
           ELSE /\ local' = [local EXCEPT !.step = @ + 1, !.fluid = target,
                                          !.stack = <<after>>]
                /\ pc' = "inject"
    /\ UNCHANGED <<data, run, trace, flow>>

\* lines 162-165: the trigger is raised and a spectrum is read
TriggerHigh ==
    /\ pc = "measure"
    /\ local.spectra < MaxSpectra
    /\ \E accepted \in Answers(flow.mux.instr_id) :
         flow' = [flow EXCEPT !.mux = set_trigger_out(@, TRUE, accepted)]
    /\ pc' = "acquired"
    /\ UNCHANGED <<data, run, trace, local>>

\* lines 166-169: the trigger is lowered
TriggerLow ==
    /\ pc = "acquired"
    /\ \E accepted \in Answers(flow.mux.instr_id) :
         flow' = [flow EXCEPT !.mux = set_trigger_out(@, FALSE, accepted)]
    /\ local' = [local EXCEPT !.spectra = @ + 1]
    /\ pc' = "measure"
    /\ UNCHANGED <<data, run, trace>>

\* lines 162, 174-179: the duration is over, the spectra are saved and the
\* product is collected to waste
SaveSpectra ==
    /\ pc = "measure"
    /\ local.spectra >= 1
    /\ local' = [local EXCEPT !.tube_number = 12, !.stack = <<"rinse">>]
    /\ pc' = "collect_product"
    /\ UNCHANGED <<data, run, trace, flow>>

\* lines 181-182: the next of the two rinses injects toluene
Rinse ==
    /\ pc = "rinse"
    /\ IF local.rinse < 2
       THEN /\ local' = [local EXCEPT !.fluid = "tol", !.stack = <<"rinse_collect">>]
            /\ pc' = "inject"
       ELSE /\ local' = local
            /\ pc' = "main_loop"
    /\ UNCHANGED <<data, run, trace, flow>>

\* line 183: the rinse is collected to waste
RinseCollect ==
    /\ pc = "rinse_collect"
    /\ local' = [local EXCEPT !.tube_number = 12, !.stack = <<"rinse">>,
                              !.rinse = @ + 1]
    /\ pc' = "collect_product"
    /\ UNCHANGED <<data, run, trace, flow>>

\* the positions between line 138 and line 183
InLoop ==
    {"main_loop", "inject_volume", "inject", "switch_v1_source", "ensure",
     "pulse_valve", "pulse_close", "toggle", "readback", "measure", "acquired",
     "collect_product", "switch_v2_outlet", "distribute", "pull", "vent",
     "rinse", "rinse_collect"}

\* a KeyboardInterrupt, or an exception of a step that is not a
\* FlowControlError, leaves the loop
Interrupt ==
    /\ pc \in InLoop
    /\ \E exc \in {"KeyboardInterrupt", "Exception"} :
         local' = Raised(local, exc)
    /\ pc' = "finally"
    /\ UNCHANGED <<data, run, trace, flow>>

\* lines 185-189: the locals of the loop body are gone, the finally block
\* calls flow.stop()
Finally ==
    /\ pc = "finally"
    /\ local' = [NoCall EXCEPT !.handler = "raised", !.exc = local.exc,
                               !.stack = <<"stop_stirring">>]
    /\ pc' = "stop"
    /\ UNCHANGED <<data, run, trace, flow>>

\* line 190
StopStirring ==
    /\ pc = "stop_stirring"
    /\ \E accepted \in BOOLEAN :
         /\ flow' = [flow EXCEPT !.stirrer = set_speed(@, 0, accepted)]
         /\ trace' = Append(trace, [call |-> "stirrer.stop_stirring",
                                    accepted |-> accepted])
    /\ pc' = "close"
    /\ UNCHANGED <<data, run, local>>

\* lines 191-194: the handles in the order they are closed
Handles == <<"ob", "mux", "muxd", "stirrer">>

\* the exceptions main does not let out
Swallowed == {"none", "KeyboardInterrupt"}

\* one of the close() calls of lines 191-194; after the last one main ends,
\* or the exception that left the loop goes on
CloseHandle ==
    /\ pc = "close"
    /\ LET handle == Handles[local.closed + 1]
       IN  \E accepted \in IF handle = "stirrer" THEN BOOLEAN ELSE {TRUE} :
             /\ flow' = CASE handle = "ob" -> [flow EXCEPT !.ob = close(@)]
                          [] handle = "mux" -> [flow EXCEPT !.mux = close(@)]
                          [] handle = "muxd" -> [flow EXCEPT !.muxd = close(@)]
                          [] OTHER -> [flow EXCEPT !.stirrer = close_stirrer(@, accepted)]
             /\ trace' = Append(trace, [call |-> handle \o ".close",
                                        accepted |-> accepted])
    /\ local' = [local EXCEPT !.closed = @ + 1]
    /\ pc' = IF local.closed + 1 < Len(Handles) THEN "close"
             ELSE IF local.exc \in Swallowed THEN "done" ELSE "raised"
    /\ UNCHANGED <<data, run>>

MainStep ==
    \/ NextReaction
    \/ InjectVolume
    \/ TriggerHigh
    \/ TriggerLow
    \/ SaveSpectra
    \/ Rinse
    \/ RinseCollect
    \/ Finally
    \/ Stop
    \/ StopStirring
    \/ CloseHandle

NextExperiment == MainStep \/ FlowStep \/ Interrupt

\* the interpreter runs main: every sleep and every SDK call returns; an
\* interrupt may come or not
SpecExperiment ==
    InitExperiment /\ [][NextExperiment]_vars /\ WF_vars(MainStep \/ FlowStep)

(***************************************************************************)
(*                      Claims about the Standardizer                      *)
(***************************************************************************)
Bands == {"nir", "vis"}
RawKey(b) == IF b = "nir" THEN "raw_nir" ELSE "raw_vis"
CleanedKey(b) == IF b = "nir" THEN "cleaned_nir" ELSE "cleaned_vis"
OtherBand(b) == IF b = "nir" THEN "vis" ELSE "nir"

\* the call of standardize_time_axis has ended (returned or raised)
StdCalled == pc \in {"returned", "raised"} /\ Len(trace) = 1

\* the call got past the parameter lookup and built its time axis
StdProcessed == StdCalled /\ pc = "returned" /\ ~local.skipped

\* the parameters row of the run, when its folder name parses
RunRows == MatchingRows(params, IntValue(SplitFirst(folders[1])))

\* C1: for every band whose raw frame has C columns, with T the length of
\* the theoretical time axis, the cleaned frame has min(C,T) columns, they
\* are labelled with the first min(C,T) time values in order, and every
\* cleaned row holds the first min(C,T) values of the raw row of the same
\* wavelength, in their original order.
C1_TimeAxisTruncation ==
    StdProcessed =>
        \A b \in Bands :
            LET raw == files[1][RawKey(b)]
                out == files[1][CleanedKey(b)]
                m == Min(NCols(raw), Len(local.tp))
            IN  raw.kind = "frame" =>
                    /\ out.kind = "frame"
                    /\ NCols(out) = m
                    /\ \A c \in 1..m : out.columns[c] = local.tp[c]
                    /\ \A k \in 1..NRows(out) :
                         /\ Len(out.values[k]) = m
                         /\ \E r \in 1..NRows(raw) :
                              /\ raw.index[r] = out.index[k]
                              /\ \A c \in 1..m :
                                   out.values[k][c] = raw.values[r][c]

\* C1 witness: one call cleaned a frame with more columns than time points
\* and a frame with fewer columns than time points, each with rows left
C1_Witness ==
    /\ StdProcessed
    /\ \E b \in Bands :
         /\ files[1][RawKey(b)].kind = "frame"
         /\ NCols(files[1][RawKey(b)]) > Len(local.tp)
         /\ Len(local.tp) >= 2
         /\ NRows(files[1][CleanedKey(b)]) >= 1
    /\ \E b \in Bands :
         /\ files[1][RawKey(b)].kind = "frame"
         /\ NCols(files[1][RawKey(b)]) < Len(local.tp)
         /\ NCols(files[1][RawKey(b)]) >= 1
         /\ NRows(files[1][CleanedKey(b)]) >= 1

\* C2 (as claimed): for num_measurements = N >= 0 and frequency = f >= 1 the
\* time axis built is 0, f, 2f, ... with exactly N elements.
C2_TimeAxisHasNumMeasurements ==
    (StdProcessed /\ RunRows[1].num_measurements >= 0
                  /\ RunRows[1].frequency >= 1) =>
        /\ Len(local.tp) = RunRows[1].num_measurements
        /\ \A k \in 1..Len(local.tp) :
             local.tp[k] = (k - 1) * RunRows[1].frequency

\* C3: every row of the cleaned visible frame has wavelength >= 500 nm, every
\* raw visible row with wavelength >= 500 nm is kept (once, in order), and
\* the cleaned near-infrared frame keeps every raw row.
C3_VisibleCutoff ==
    StdProcessed =>
        /\ LET raw == files[1]["raw_vis"]
               out == files[1]["cleaned_vis"]
           IN  raw.kind = "frame" =>
                 /\ out.kind = "frame"
                 /\ \A k \in 1..NRows(out) :
                        out.index[k] >= VIS_CUTOFF * WlUnit
                 /\ \A r \in 1..NRows(raw) :
                        raw.index[r] >= VIS_CUTOFF * WlUnit =>
                            \E k \in 1..NRows(out) : out.index[k] = raw.index[r]
                 /\ \A k \in 1..NRows(out) :
                        \E r \in 1..NRows(raw) : out.index[k] = raw.index[r]
                 /\ \A j, k \in 1..NRows(out) :
                        j < k => out.index[j] < out.index[k]
        /\ LET raw == files[1]["raw_nir"]
               out == files[1]["cleaned_nir"]
           IN  raw.kind = "frame" =>
                 /\ out.kind = "frame"
                 /\ out.index = raw.index

\* C3 witness: a visible frame lost a row below 500 nm and kept the row at
\* 500 nm exactly, while the near-infrared frame kept a row below 500 nm
C3_Witness ==
    /\ StdProcessed
    /\ files[1]["raw_vis"].kind = "frame"
    /\ files[1]["raw_nir"].kind = "frame"
    /\ NRows(files[1]["cleaned_vis"]) < NRows(files[1]["raw_vis"])
    /\ \E k \in 1..NRows(files[1]["cleaned_vis"]) :
         files[1]["cleaned_vis"].index[k] = VIS_CUTOFF * WlUnit
    /\ \E k \in 1..NRows(files[1]["cleaned_nir"]) :
         files[1]["cleaned_nir"].index[k] < VIS_CUTOFF * WlUnit

\* the leading token of the folder name is no decimal integer
TokenUnparseable == ~IntParses(SplitFirst(folders[1]))

\* the table has a reaction_id column and no row for the folder's integer
IdUnknown ==
    /\ IntParses(SplitFirst(folders[1]))
    /\ "reaction_id" \in params.columns
    /\ \A k \in 1..Len(params.rows) :
         params.rows[k].reaction_id # IntValue(SplitFirst(folders[1]))

\* C4: if the leading token of the folder name is no decimal integer, or the
\* integer is no reaction_id of the parameters table, the call logs a
\* warning and returns normally, having written no cleaned file of either
\* band.
C4_UnknownRunSkipped ==
    (StdCalled /\ (TokenUnparseable \/ IdUnknown)) =>
        /\ pc = "returned"
        /\ local.exc = "none"
        /\ trace[1].wrote = {}
        /\ \A b \in Bands : files[1][CleanedKey(b)].kind = "absent"
        /\ \E k \in 1..Len(log) : log[k].level = "warning"

\* C4 witness: a folder whose token parses to an integer missing from the
\* table was skipped although both of its raw files are good frames
C4_Witness ==
    /\ StdCalled
    /\ IdUnknown
    /\ \A b \in Bands : files[1][RawKey(b)].kind = "frame"
    /\ local.skipped

\* C6: when one band fails (raw file missing: warning; malformed: error),
\* the failure is logged for that band, the other band's cleaned file is
\* still written, whichever band fails, and the call returns normally.
C6_BandFailureIsolated ==
    (StdCalled /\ ~local.skipped /\ local.exc = "none") =>
        /\ pc = "returned"
        /\ \A b \in Bands :
             LET raw == files[1][RawKey(b)]
             IN  raw.kind # "frame" =>
                   /\ files[1][CleanedKey(b)].kind = "absent"
                   /\ CleanedKey(b) \notin trace[1].wrote
                   /\ \E k \in 1..Len(log) :
                        /\ log[k].band = b
                        /\ log[k].level = IF raw.kind = "absent"
                                          THEN "warning" ELSE "error"
                   /\ files[1][RawKey(OtherBand(b))].kind = "frame" =>
                        /\ files[1][CleanedKey(OtherBand(b))].kind = "frame"
                        /\ CleanedKey(OtherBand(b)) \in trace[1].wrote

\* C6 witness: the near-infrared band (processed first) failed on a malformed
\* file and the visible band was still written
C6_Witness ==
    /\ StdProcessed
    /\ files[1]["raw_nir"].kind = "malformed"
    /\ files[1]["cleaned_vis"].kind = "frame"
    /\ "cleaned_vis" \in trace[1].wrote
    /\ NCols(files[1]["cleaned_vis"]) >= 1

(***************************************************************************)
(*                        Claims about the Smoother                        *)
(***************************************************************************)
SmoothedKey(b) == IF b = "nir" THEN "smoothed_nir" ELSE "smoothed_vis"

\* apply_smoothing has returned
Smoothed == Len(trace) >= 1 /\ trace[1].stage = "smooth"

\* apply_smoothing wrote the smoothed file of the band b
SmoothedBand(b) == Smoothed /\ SmoothedKey(b) \in trace[1].wrote

\* the label w is the label v rounded to WL_DECIMALS decimals
IsRounded(w, v) ==
    /\ w % (WlUnit \div (10 ^ WL_DECIMALS)) = 0
    /\ 2 * Abs(w - v) <= WlUnit \div (10 ^ WL_DECIMALS)

\* C14 (as claimed): the smoothed output of a band has exactly the row
\* labels and the column labels of the band's cleaned input, in the same
\* order.
C14_LabelsIdentical ==
    \A b \in Bands :
        SmoothedBand(b) =>
            /\ files[1][SmoothedKey(b)].index = files[1][CleanedKey(b)].index
            /\ files[1][SmoothedKey(b)].columns = files[1][CleanedKey(b)].columns

\* C14 (amended): the smoothed output of a band has the column labels of
\* the band's cleaned input and as many rows, in the same order, each row
\* labelled by the cleaned wavelength rounded to 1 decimal.
C14_LabelsRounded ==
    \A b \in Bands :
        SmoothedBand(b) =>
            /\ files[1][SmoothedKey(b)].columns = files[1][CleanedKey(b)].columns
            /\ NRows(files[1][SmoothedKey(b)]) = NRows(files[1][CleanedKey(b)])
            /\ \A r \in 1..NRows(files[1][CleanedKey(b)]) :
                   /\ IsRounded(files[1][SmoothedKey(b)].index[r],
                                files[1][CleanedKey(b)].index[r])
                   /\ Len(files[1][SmoothedKey(b)].values[r])
                        = NCols(files[1][CleanedKey(b)])

\* C14 witness: a band was smoothed whose cleaned wavelengths have more
\* than one decimal, and the smoothing changed a value
C14_Witness ==
    \E b \in Bands :
        /\ SmoothedBand(b)
        /\ \E r \in 1..NRows(files[1][CleanedKey(b)]) :
             files[1][CleanedKey(b)].index[r] # files[1][SmoothedKey(b)].index[r]
        /\ files[1][SmoothedKey(b)].values # files[1][CleanedKey(b)].values

\* the smoothing window fits the cleaned frame of the band b: it is odd and
\* no longer than the frame has rows
WindowAdmitted(b) ==
    /\ local.window_length % 2 = 1
    /\ local.window_length <= NRows(files[1][CleanedKey(b)])

\* the error entries apply_smoothing logged for the band b
SmoothErrors(b) ==
    {i \in 1..Len(log) : log[i] = [level |-> "error", stage |-> "smooth", band |-> b]}

\* C15 (as claimed): apply_smoothing returns normally and writes the
\* smoothed file of exactly the bands whose cleaned file is present and
\* whose row count admits the window; an absent band is skipped without a
\* log entry; an even window, or one larger than the band's row count, is
\* logged for that band and no smoothed file is written for it.
C15_SmoothedExactlyAdmitted ==
    (pc = "merge" /\ Smoothed) =>
        \A b \in Bands :
            /\ SmoothedBand(b) <=>
                 (files[1][CleanedKey(b)].kind = "frame" /\ WindowAdmitted(b))
            /\ files[1][CleanedKey(b)].kind = "absent" => SmoothErrors(b) = {}
            /\ (files[1][CleanedKey(b)].kind = "frame" /\ ~WindowAdmitted(b)) =>
                 /\ SmoothErrors(b) # {}
                 /\ files[1][SmoothedKey(b)].kind = "absent"
            /\ SmoothedBand(b) => SmoothErrors(b) = {}

(***************************************************************************)
(*                        Claims about the Merger                          *)
(***************************************************************************)
\* merge_vis_nir_spectra has returned after stitching two bands
MergedBoth == pc = "returned" /\ local.mode = "both"

\* the rows of a smoothed frame inside the overlap window
\* [center - half_width, center + half_width]
WindowRowsOf(df) ==
    {r \in 1..NRows(df) :
        /\ df.index[r] >= (STITCH_WAVELENGTH - STITCH_WINDOW) * WlUnit
        /\ df.index[r] <= (STITCH_WAVELENGTH + STITCH_WINDOW) * WlUnit}

\* the sum of the cells of the column labelled label over the rows rows
RECURSIVE WindowSum(_, _, _)
WindowSum(df, rows, label) ==
    IF rows = {} THEN 0
    ELSE LET r == CHOOSE x \in rows : TRUE
         IN  df.values[r][ColumnOf(df, label)]
             + WindowSum(df, rows \ {r}, label)

\* mean_vis > threshold for the shared timestamp label
VisAbove(label) ==
    LET vis == files[1]["smoothed_vis"]
    IN  /\ WindowRowsOf(vis) # {}
        /\ WindowSum(vis, WindowRowsOf(vis), label)
             > MIN_SIGNAL_THRESHOLD * ValUnit * Cardinality(WindowRowsOf(vis))

\* mean_vis <= threshold for the shared timestamp label
VisAtOrBelow(label) ==
    LET vis == files[1]["smoothed_vis"]
    IN  /\ WindowRowsOf(vis) # {}
        /\ WindowSum(vis, WindowRowsOf(vis), label)
             <= MIN_SIGNAL_THRESHOLD * ValUnit * Cardinality(WindowRowsOf(vis))

\* the factor of column c equals mean_nir / mean_vis (cross-multiplied)
FactorIsRatio(c) ==
    LET vis == files[1]["smoothed_vis"]
        nir == files[1]["smoothed_nir"]
        label == files[1]["merged"].columns[c]
    IN  local.scaling[c].num
            * (WindowSum(vis, WindowRowsOf(vis), label)
                 * Cardinality(WindowRowsOf(nir)))
        = local.scaling[c].den
            * (WindowSum(nir, WindowRowsOf(nir), label)
                 * Cardinality(WindowRowsOf(vis)))

\* every merged row taken from the visible band holds, in column c, the
\* smoothed visible value of its wavelength, unchanged
VisColumnUnchanged(c) ==
    LET vis == files[1]["smoothed_vis"]
        out == files[1]["merged"]
    IN  \A k \in 1..NRows(out) :
            local.origin[k] = "vis" =>
                \E r \in 1..NRows(vis) :
                    /\ vis.index[r] = out.index[k]
                    /\ out.values[k][c]
                         = RatOfInt(vis.values[r][ColumnOf(vis, out.columns[c])])

\* C8: with both smoothed bands present, for every shared timestamp the
\* scaling factor is mean_nir / mean_vis (means over the rows of the overlap
\* window, mean_nir defined) when mean_vis > threshold, and exactly 1 when
\* mean_vis <= threshold, in which case the visible values of that timestamp
\* appear unchanged in the merged output.
C8_ScalingFactor ==
    MergedBoth =>
        \A c \in 1..NCols(files[1]["merged"]) :
            LET label == files[1]["merged"].columns[c]
            IN  /\ (VisAbove(label)
                      /\ WindowRowsOf(files[1]["smoothed_nir"]) # {})
                        => FactorIsRatio(c)
                /\ VisAtOrBelow(label) =>
                        /\ local.scaling[c] = RatOfInt(1)
                        /\ VisColumnUnchanged(c)

\* C8 witness: one merge scaled a column whose visible mean is above the
\* threshold by a factor other than 1 and left a column whose visible mean
\* equals the threshold unscaled, with visible rows in the output
C8_Witness ==
    /\ MergedBoth
    /\ \E k \in 1..NRows(files[1]["merged"]) : local.origin[k] = "vis"
    /\ \E c \in 1..NCols(files[1]["merged"]) :
         /\ VisAbove(files[1]["merged"].columns[c])
         /\ local.scaling[c] # RatOfInt(1)
    /\ \E c \in 1..NCols(files[1]["merged"]) :
         LET vis == files[1]["smoothed_vis"]
         IN  /\ WindowSum(vis, WindowRowsOf(vis), files[1]["merged"].columns[c])
                  = MIN_SIGNAL_THRESHOLD * ValUnit * Cardinality(WindowRowsOf(vis))
             /\ WindowRowsOf(files[1]["smoothed_nir"]) # {}
             /\ WindowSum(files[1]["smoothed_nir"],
                          WindowRowsOf(files[1]["smoothed_nir"]),
                          files[1]["merged"].columns[c])
                  # MIN_SIGNAL_THRESHOLD * ValUnit
                      * Cardinality(WindowRowsOf(files[1]["smoothed_nir"]))
             /\ local.scaling[c] = RatOfInt(1)

\* C9 (as claimed): in the merged output of two bands every row below the
\* stitch center comes from the visible frame, every row at or above it from
\* the near-infrared frame, and the wavelengths are sorted ascending with no
\* duplicates.
C9_StitchBoundarySortedUnique ==
    MergedBoth =>
        LET out == files[1]["merged"]
        IN  /\ \A k \in 1..NRows(out) :
                 /\ out.index[k] < STITCH_WAVELENGTH * WlUnit
                        => local.origin[k] = "vis"
                 /\ out.index[k] >= STITCH_WAVELENGTH * WlUnit
                        => local.origin[k] = "nir"
            /\ \A j, k \in 1..NRows(out) : j < k => out.index[j] < out.index[k]


\* merge_vis_nir_spectra has returned
Merged == pc = "returned" /\ Len(trace) = 2 /\ trace[2].stage = "merge"

\* the error entries merge_vis_nir_spectra logged
MergeErrors == {i \in 1..Len(log) : log[i].stage = "merge"}

\* the merged file is the smoothed file of the band b, cell for cell
MergedIsBand(b) ==
    LET out == files[1]["merged"]
        src == files[1][SmoothedKey(b)]
    IN  /\ out.kind = "frame"
        /\ out.index = src.index
        /\ out.columns = src.columns
        /\ \A r \in 1..NRows(src) : \A c \in 1..NCols(src) :
               out.values[r][c] = RatOfInt(src.values[r][c])

\* C16: merge_vis_nir_spectra writes a merged file if and only if at least
\* one smoothed band file exists; with neither nothing is written; with
\* exactly one the merged output has the rows, columns and values of that
\* band, in single-band mode, and no error is logged.
C16_SingleBandCopied ==
    Merged =>
        /\ "merged" \in trace[2].wrote <=>
              \E b \in Bands : files[1][SmoothedKey(b)].kind = "frame"
        /\ (\A b \in Bands : files[1][SmoothedKey(b)].kind = "absent") =>
              /\ files[1]["merged"].kind = "absent"
              /\ local.mode = "none"
        /\ \A b \in Bands :
              (/\ files[1][SmoothedKey(b)].kind = "frame"
               /\ files[1][SmoothedKey(OtherBand(b))].kind = "absent") =>
                  /\ MergedIsBand(b)
                  /\ local.mode = b
                  /\ MergeErrors = {}

\* C16 witness: a merge that copied a lone NIR band holding rows on both
\* sides of the stitch wavelength
C16_Witness ==
    /\ Merged
    /\ files[1]["smoothed_vis"].kind = "absent"
    /\ files[1]["smoothed_nir"].kind = "frame"
    /\ local.mode = "nir"
    /\ \E r \in 1..NRows(files[1]["merged"]) :
         files[1]["merged"].index[r] < STITCH_WAVELENGTH * WlUnit
    /\ \E r \in 1..NRows(files[1]["merged"]) :
         files[1]["merged"].values[r][1] # RatOfInt(0)

\* the overlap window holds no row of the smoothed band b
NoWindowRows(b) == WindowRowsOf(files[1][SmoothedKey(b)]) = {}

\* C17: when the scaling factor of a shared timestamp is undefined or not
\* finite (no near-infrared rows or no visible rows in the overlap window, so
\* a mean is undefined) it is replaced by exactly 1: every factor is a finite
\* number, the visible values of that timestamp appear unchanged in the
\* merged output, and the merge writes its file without logging an error.
C17_UndefinedFactorIsOne ==
    MergedBoth =>
        /\ "merged" \in trace[2].wrote
        /\ MergeErrors = {}
        /\ \A c \in 1..NCols(files[1]["merged"]) :
              /\ local.scaling[c] = Rat(local.scaling[c].num, local.scaling[c].den)
              /\ local.scaling[c].den > 0
              /\ (NoWindowRows("nir") \/ NoWindowRows("vis")) =>
                    /\ local.scaling[c] = RatOfInt(1)
                    /\ VisColumnUnchanged(c)

\* C17 witness: a merge where the near-infrared band has no row in the
\* overlap window while the visible mean of a shared timestamp is above the
\* threshold (the ratio is undefined), with visible rows in the output
C17_Witness ==
    /\ MergedBoth
    /\ NoWindowRows("nir")
    /\ \E k \in 1..NRows(files[1]["merged"]) : local.origin[k] = "vis"
    /\ \E c \in 1..NCols(files[1]["merged"]) :
         /\ VisAbove(files[1]["merged"].columns[c])
         /\ local.scaling[c] = RatOfInt(1)

\* the set of column labels of a frame
LabelSet(df) == {df.columns[c] : c \in 1..NCols(df)}

\* C18: with both smoothed bands present the merged output's columns are
\* exactly the timestamps present in both smoothed frames, each once; a
\* timestamp present in only one band is dropped, and no error is logged.
C18_ColumnsAreIntersection ==
    MergedBoth =>
        /\ LabelSet(files[1]["merged"])
             = LabelSet(files[1]["smoothed_nir"])
                 \cap LabelSet(files[1]["smoothed_vis"])
        /\ Cardinality(LabelSet(files[1]["merged"])) = NCols(files[1]["merged"])
        /\ MergeErrors = {}

\* C18 witness: a merge of two bands that share one timestamp and hold one
\* timestamp each that the other lacks
C18_Witness ==
    /\ MergedBoth
    /\ LabelSet(files[1]["smoothed_nir"]) \ LabelSet(files[1]["smoothed_vis"]) # {}
    /\ LabelSet(files[1]["smoothed_vis"]) \ LabelSet(files[1]["smoothed_nir"]) # {}
    /\ NCols(files[1]["merged"]) = 1
    /\ NRows(files[1]["merged"]) > 0

(***************************************************************************)
(*                   Claims about the Feature Extractor                    *)
(***************************************************************************)
\* extract_spectral_features has returned after writing a feature table
Extracted ==
    /\ pc = "returned"
    /\ Len(trace) = 1
    /\ trace[1].wrote = {"features"}

\* the largest intensity of the timestamp column c of the smoothed NIR frame
RawMax(c) ==
    LET df == files[1]["smoothed_nir"]
    IN  CHOOSE v \in {df.values[r][c] : r \in 1..NRows(df)} :
            \A r \in 1..NRows(df) : df.values[r][c] <= v

\* the column c has a peak below 50 and a timestamp above 100
BelowGate(c) ==
    /\ RawMax(c) < 50 * ValUnit
    /\ files[1]["smoothed_nir"].columns[c] > 100

\* C10: for every timestamp column whose raw peak intensity is < 50 and
\* whose timestamp is > 100 the emitted record has absent peak_wavelength
\* and fwhm_ev and max_intensity equal to the column's raw maximum; a column
\* with peak >= 50 or timestamp <= 100 has its peak_wavelength present.
C10_NoiseGate ==
    Extracted =>
        \A c \in 1..NCols(files[1]["smoothed_nir"]) :
            LET rec == files[1]["features"].rows[c]
            IN  /\ BelowGate(c) =>
                     /\ rec.peak_wavelength = NaN
                     /\ rec.fwhm_ev = NaN
                     /\ rec.max_intensity = RawMax(c)
                /\ ~BelowGate(c) => rec.peak_wavelength.kind = "num"

\* C10 witness: one feature table holds a gated record, the record of a weak
\* column at the time threshold and the record of a strong late column
C10_Witness ==
    /\ Extracted
    /\ \E c \in 1..NCols(files[1]["smoothed_nir"]) :
         /\ BelowGate(c)
         /\ files[1]["features"].rows[c].peak_wavelength = NaN
    /\ \E c \in 1..NCols(files[1]["smoothed_nir"]) :
         /\ RawMax(c) < 50 * ValUnit
         /\ files[1]["smoothed_nir"].columns[c] = 100
         /\ files[1]["features"].rows[c].peak_wavelength.kind = "num"
    /\ \E c \in 1..NCols(files[1]["smoothed_nir"]) :
         /\ RawMax(c) = 50 * ValUnit
         /\ files[1]["smoothed_nir"].columns[c] > 100
         /\ files[1]["features"].rows[c].peak_wavelength.kind = "num"

\* extract_spectral_features was called on a smoothed NIR frame with rows
ExtractRan ==
    /\ pc \in {"returned", "raised"}
    /\ Len(trace) = 1
    /\ trace[1].stage = "extract"
    /\ files[1]["smoothed_nir"].kind = "frame"
    /\ NRows(files[1]["smoothed_nir"]) > 0

\* I * lambda^2 down the timestamp column c of the smoothed NIR frame
EvOf(c) ==
    IntensityEv(Column(files[1]["smoothed_nir"], c),
                files[1]["smoothed_nir"].index)

\* no sample before the energy-space peak is below half of it
NoLeftCrossing(c) ==
    \A i \in 1..(ArgMax(EvOf(c)) - 1) : 2 * EvOf(c)[i] >= EvOf(c)[ArgMax(EvOf(c))]

\* no sample after the energy-space peak is below half of it
NoRightCrossing(c) ==
    \A i \in (ArgMax(EvOf(c)) + 1)..NRows(files[1]["smoothed_nir"]) :
        2 * EvOf(c)[i] >= EvOf(c)[ArgMax(EvOf(c))]

C12_WidthNonNegative ==
    Extracted =>
        \A c \in 1..Len(files[1]["features"].rows) :
            files[1]["features"].rows[c].fwhm_ev.kind = "num" =>
                ~RatLess(files[1]["features"].rows[c].fwhm_ev.minuend,
                         files[1]["features"].rows[c].fwhm_ev.subtrahend)

\* C12 witness: a table from a frame whose wavelengths descend, so that the
\* energies ascend with the row index, with a linewidth above 0
C12_Witness ==
    /\ Extracted
    /\ files[1]["smoothed_nir"].index[1] > files[1]["smoothed_nir"].index[2]
    /\ \E c \in 1..Len(files[1]["features"].rows) :
         /\ files[1]["features"].rows[c].fwhm_ev.kind = "num"
         /\ RatLess(files[1]["features"].rows[c].fwhm_ev.subtrahend,
                    files[1]["features"].rows[c].fwhm_ev.minuend)

\* the example: wavelengths in nm and intensities of the single column
ExampleWavelengths == <<900, 910, 920, 930, 940>>
ExampleIntensities == <<10, 50, 100, 50, 10>>

\* extract_spectral_features was called on the example
ExampleRan ==
    /\ pc \in {"returned", "raised"}
    /\ Len(trace) = 1
    /\ files[1]["smoothed_nir"]
         = Frame([r \in 1..5 |-> ExampleWavelengths[r] * WlUnit], <<5>>,
                 [r \in 1..5 |-> <<ExampleIntensities[r] * ValUnit>>])

\* I * lambda^2 of the example, in nm^2
ExampleEv ==
    [r \in 1..5 |-> ExampleIntensities[r] * ExampleWavelengths[r] * ExampleWavelengths[r]]

\* C13: for wavelengths [900,910,920,930,940], the single timestamp 5 and
\* intensities [10,50,100,50,10] the call emits exactly one record, with
\* peak_wavelength 920 and max_intensity 100 and a non-absent linewidth
\* anchored on the row maximizing I * lambda^2, between the last row before
\* it and the first row after it that are below half of that maximum.
C13_Example ==
    ExampleRan =>
        /\ Extracted
        /\ Len(files[1]["features"].rows) = 1
        /\ LET rec == files[1]["features"].rows[1]
               peak == CHOOSE p \in 1..5 : \A r \in 1..5 : ExampleEv[r] <= ExampleEv[p]
           IN  /\ rec.timestamp = 5
               /\ rec.peak_wavelength = Num(920 * WlUnit)
               /\ rec.max_intensity = 100 * ValUnit
               /\ rec.fwhm_ev.kind = "num"
               /\ rec.fwhm_ev.peak_idx_ev = peak
               /\ 2 * ExampleEv[rec.fwhm_ev.left_idx] < ExampleEv[peak]
               /\ \A r \in (rec.fwhm_ev.left_idx + 1)..peak :
                      2 * ExampleEv[r] >= ExampleEv[peak]
               /\ 2 * ExampleEv[rec.fwhm_ev.right_idx] < ExampleEv[peak]
               /\ \A r \in peak..(rec.fwhm_ev.right_idx - 1) :
                      2 * ExampleEv[r] >= ExampleEv[peak]

\* C13 witness: the feature table of the example, with a linewidth
C13_Witness ==
    /\ ExampleRan
    /\ Extracted
    /\ files[1]["features"].rows[1].fwhm_ev.kind = "num"
    /\ files[1]["features"].rows[1].fwhm_ev.right_idx = 5

\* extract_spectral_features was called and has returned or raised
ExtractCalled ==
    /\ pc \in {"returned", "raised"}
    /\ Len(trace) = 1
    /\ trace[1].stage = "extract"

\* the run folder f with every file but the smoothed NIR file removed
NirOnly(f) ==
    [NoOutputs(Absent, Absent) EXCEPT !["smoothed_nir"] = f["smoothed_nir"]]

\* the feature table of the run is the one extract_spectral_features derives
\* from the smoothed NIR file alone
FeaturesFromNirOnly ==
    files[1]["features"]
        = extract_spectral_features(NirOnly(files[1]), INTENSITY_THRESHOLD,
                                    TIME_THRESHOLD, local.peaks).files["features"]

\* C19 (as claimed): extract_spectral_features depends on the smoothed NIR
\* file only: it writes a feature table if and only if that file exists, and
\* the table is the same whatever the cleaned, visible and merged files hold.
C19_DependsOnNirOnly ==
    ExtractCalled =>
        /\ "features" \in trace[1].wrote
              <=> files[1]["smoothed_nir"].kind # "absent"
        /\ FeaturesFromNirOnly

\* the part of C19 that the code keeps: the table depends on the smoothed NIR
\* file alone, it is never written without that file, and it is written
\* whenever that file is a readable frame with rows
C19_ReadableNirOnly ==
    ExtractCalled =>
        /\ FeaturesFromNirOnly
        /\ "features" \in trace[1].wrote
              => files[1]["smoothed_nir"].kind = "frame"
        /\ (/\ files[1]["smoothed_nir"].kind = "frame"
            /\ NRows(files[1]["smoothed_nir"]) > 0)
              => "features" \in trace[1].wrote

\* a feature table was written while the folder held other files
C19_OthersPresent ==
    /\ Extracted
    /\ files[1]["merged"].kind = "frame"
    /\ files[1]["smoothed_vis"].kind = "frame"
    /\ files[1]["features"].rows # <<>>

\* the reduced wavelengths of the smoothed NIR frame
WlOf == ReducedWavelengths(files[1]["smoothed_nir"].index)

\* the energy e (in units of hc / g) lies between the energies of the rows
\* a and a + 1
EnergyBetween(e, a) ==
    /\ ~RatLess(e, Rat(1, Max(WlOf[a], WlOf[a + 1])))
    /\ ~RatLess(Rat(1, Min(WlOf[a], WlOf[a + 1])), e)

\* half of the energy-space peak of the column c lies between the samples a
\* and a + 1, the sample below strictly below it and the sample above at or
\* above it
HalfMaxBetween(c, below, above) ==
    /\ 2 * EvOf(c)[below] < EvOf(c)[ArgMax(EvOf(c))]
    /\ 2 * EvOf(c)[above] >= EvOf(c)[ArgMax(EvOf(c))]

\* the record of the column c holds the brackets of the claim
BracketsOf(c) ==
    LET w == files[1]["features"].rows[c].fwhm_ev
        ev == EvOf(c)
        p == w.peak_idx_ev
        e_left == InterpEnergy(ev, WlOf, w.left_idx, p)
        e_right == InterpEnergy(ev, WlOf, w.right_idx - 1, p)
    IN  /\ w.left_idx < p
        /\ \A k \in (w.left_idx + 1)..(p - 1) : 2 * ev[k] >= ev[p]
        /\ HalfMaxBetween(c, w.left_idx, w.left_idx + 1)
        /\ w.right_idx > p
        /\ \A k \in (p + 1)..(w.right_idx - 1) : 2 * ev[k] >= ev[p]
        /\ HalfMaxBetween(c, w.right_idx, w.right_idx - 1)
        /\ EnergyBetween(e_left, w.left_idx)
        /\ EnergyBetween(e_right, w.right_idx - 1)
        /\ {w.minuend, w.subtrahend} = {e_left, e_right}

\* C23: for every non-gated column where both crossings exist, the left
\* bracket is (i, i+1) with i the last row before the energy-space peak below
\* half-maximum, the right bracket is (j-1, j) with j the first row after the
\* peak below half-maximum, half-maximum lies between the two samples of each
\* bracket (one strictly below, the other at or above) and each interpolated
\* energy lies between the energies of its two samples; the crossings exist
\* whenever both searches find a sample and the peak is not negative.
C23_CrossingBrackets ==
    Extracted =>
        \A c \in 1..NCols(files[1]["smoothed_nir"]) :
            /\ files[1]["features"].rows[c].fwhm_ev.kind = "num" => BracketsOf(c)
            /\ (/\ ~BelowGate(c)
                /\ ~NoLeftCrossing(c) /\ ~NoRightCrossing(c)
                /\ EvOf(c)[ArgMax(EvOf(c))] >= 0)
                  => files[1]["features"].rows[c].fwhm_ev.kind = "num"

\* C23 witness: a column of two lines where two rows before the peak are
\* below half-maximum and the right crossing is next to the peak
C23_Witness ==
    /\ Extracted
    /\ NRows(files[1]["smoothed_nir"]) = 5
    /\ files[1]["features"].rows[1].fwhm_ev.kind = "num"
    /\ files[1]["features"].rows[1].fwhm_ev.peak_idx_ev = 4
    /\ files[1]["features"].rows[1].fwhm_ev.left_idx = 3
    /\ files[1]["features"].rows[1].fwhm_ev.right_idx = 5
    /\ 2 * EvOf(1)[1] < EvOf(1)[4]

\* a column below zero throughout: both searches find a sample, half of the
\* peak lies above the peak, and the linewidth is absent
C23_NegativeColumn ==
    /\ Extracted
    /\ NRows(files[1]["smoothed_nir"]) = 5
    /\ EvOf(1)[ArgMax(EvOf(1))] < 0
    /\ ~NoLeftCrossing(1) /\ ~NoRightCrossing(1)
    /\ files[1]["features"].rows[1].fwhm_ev = NaN

\* the first row holding the largest raw intensity of the column c
FirstRawPeak(c) ==
    LET col == Column(files[1]["smoothed_nir"], c)
    IN  CHOOSE r \in 1..Len(col) :
            /\ col[r] = RawMax(c)
            /\ \A j \in 1..(r - 1) : col[j] < RawMax(c)

\* the row r holds the largest energy-space intensity of the column c, and
\* is the first such row when the largest value is zero (rows that are equal
\* as computed)
IsEvPeak(c, r) ==
    /\ \A j \in 1..Len(EvOf(c)) : EvOf(c)[j] <= EvOf(c)[r]
    /\ EvOf(c)[r] = 0 => \A j \in 1..(r - 1) : EvOf(c)[j] < 0

\* C24: the reported max_intensity and peak_wavelength are those of the
\* wavelength-space peak (largest raw intensity, first occurrence on ties),
\* while half-maximum and both crossing searches are anchored on the row
\* maximizing I(lambda) * lambda^2 / hc, which may be another row.
C24_EnergySpacePeak ==
    Extracted =>
        \A c \in 1..NCols(files[1]["smoothed_nir"]) :
            LET rec == files[1]["features"].rows[c]
            IN  /\ rec.max_intensity = RawMax(c)
                /\ rec.peak_wavelength.kind = "num" =>
                     rec.peak_wavelength
                        = Num(files[1]["smoothed_nir"].index[FirstRawPeak(c)])
                /\ rec.fwhm_ev.kind = "num" =>
                     /\ IsEvPeak(c, rec.fwhm_ev.peak_idx_ev)
                     /\ rec.fwhm_ev.left_idx < rec.fwhm_ev.peak_idx_ev
                     /\ rec.fwhm_ev.peak_idx_ev < rec.fwhm_ev.right_idx
                     /\ 2 * EvOf(c)[rec.fwhm_ev.left_idx]
                          < EvOf(c)[rec.fwhm_ev.peak_idx_ev]
                     /\ 2 * EvOf(c)[rec.fwhm_ev.right_idx]
                          < EvOf(c)[rec.fwhm_ev.peak_idx_ev]

\* C24 witness: a column with two rows of the largest raw intensity, the
\* first of them reported as the peak wavelength, and the linewidth anchored
\* two rows further, on the energy-space peak
C24_Witness ==
    /\ Extracted
    /\ NRows(files[1]["smoothed_nir"]) = 5
    /\ Column(files[1]["smoothed_nir"], 1)[2] = Column(files[1]["smoothed_nir"], 1)[4]
    /\ FirstRawPeak(1) = 2
    /\ files[1]["features"].rows[1].peak_wavelength
         = Num(files[1]["smoothed_nir"].index[2])
    /\ files[1]["features"].rows[1].fwhm_ev.kind = "num"
    /\ files[1]["features"].rows[1].fwhm_ev.peak_idx_ev = 4

\* C25: for a smoothed NIR frame with rows, extract_spectral_features emits
\* exactly one record per timestamp column, in column order, whether the
\* column is gated, has an undetermined linewidth or is fully analysed, and
\* every record's max_intensity is the largest raw intensity of its column.
C25_OneRecordPerColumn ==
    ExtractRan =>
        /\ Extracted
        /\ Len(files[1]["features"].rows) = NCols(files[1]["smoothed_nir"])
        /\ \A c \in 1..NCols(files[1]["smoothed_nir"]) :
              /\ files[1]["features"].rows[c].timestamp
                   = files[1]["smoothed_nir"].columns[c]
              /\ files[1]["features"].rows[c].max_intensity = RawMax(c)

\* C25 witness: a table of three records, the first with an undetermined
\* linewidth, the second fully analysed, the third gated, whose columns have
\* different maxima
C25_Witness ==
    /\ Extracted
    /\ Len(files[1]["features"].rows) = 3
    /\ files[1]["features"].rows[1].peak_wavelength.kind = "num"
    /\ files[1]["features"].rows[1].fwhm_ev = NaN
    /\ files[1]["features"].rows[2].fwhm_ev.kind = "num"
    /\ BelowGate(3)
    /\ files[1]["features"].rows[3].peak_wavelength = NaN
    /\ RawMax(1) # RawMax(2) /\ RawMax(2) # RawMax(3) /\ RawMax(1) # RawMax(3)

(***************************************************************************)
(*                       Claims about the pipeline                         *)
(***************************************************************************)
PerRunStages == <<"standardize", "smooth", "merge", "plot", "extract">>

\* main has ended: it returned, or an exception left it
Terminated == pc \in {"done", "raised"}

\* the positions of the trace where the stage ran for the run k
Runs(stage, k) ==
    {i \in 1..Len(trace) : trace[i].stage = stage /\ trace[i].run = k}

CompileRuns == {i \in 1..Len(trace) : trace[i].stage = "compile"}

\* C5 (as claimed): whatever the run data, once the parameters table is
\* loaded main executes every stage for every run and executes the
\* aggregation step, and no exception leaves main.
C5_NoGlobalAbort ==
    (Terminated /\ params.kind = "table") =>
        /\ pc = "done"
        /\ \A k \in 1..Len(folders) :
             \A s \in 1..Len(PerRunStages) : Runs(PerRunStages[s], k) # {}
        /\ CompileRuns # {}

\* the stages of the trace so far follow the order of main: the runs one
\* after another, each through its stages in order, the aggregator last
TraceInOrder ==
    \A i \in 1..Len(trace) :
        IF trace[i].stage = "compile"
        THEN /\ i = 5 * Len(folders) + 1
        ELSE /\ trace[i].run = ((i - 1) \div 5) + 1
             /\ trace[i].stage = PerRunStages[((i - 1) % 5) + 1]

\* the summary files are written by the aggregator only, all at one step
SummariesAtTheEnd ==
    /\ \A i \in 1..Len(trace) :
         trace[i].stage # "compile" =>
            trace[i].wrote \cap {Metrics[k] : k \in 1..3} = {}
    /\ CompileRuns = {} => summary = NoSummary
    /\ Cardinality(CompileRuns) <= 1

\* C7 (as claimed): the stages of each run execute in order, the runs one
\* after another, the aggregator executes exactly once, after the Feature
\* Extractor has finished for every run; no summary file is written before
\* that point and each is written at most once.
C7_ExecutionOrder ==
    /\ TraceInOrder
    /\ SummariesAtTheEnd
    /\ (Terminated /\ params.kind = "table") => Cardinality(CompileRuns) = 1

\* the run k produced a feature file that holds records
ProducedFeatures(k) ==
    /\ files[k]["features"].kind = "features"
    /\ files[k]["features"].rows # <<>>

\* the runs that produced a non-empty feature file, in run-list order
Producers == SortedSeq({k \in 1..Len(folders) : ProducedFeatures(k)})

\* the timestamps of the feature records of the run k
TimestampsOf(k) ==
    {files[k]["features"].rows[i].timestamp :
        i \in 1..Len(files[k]["features"].rows)}

\* every summary table has one column per producing run, named after its
\* folder, in run-list order, and the union of their timestamps as rows
SummaryColumnsPerProducer ==
    \A m \in DOMAIN summary :
        /\ summary[m].kind = "table"
        /\ summary[m].columns = [j \in 1..Len(Producers) |-> folders[Producers[j]]]
        /\ summary[m].index = UNION {TimestampsOf(Producers[j]) :
                                        j \in 1..Len(Producers)}

\* C20 (as claimed): after compile_experiment_traces each of the three
\* summary tables has exactly one column per run that produced a non-empty
\* feature file, named after that run's folder, in run-list order, with the
\* union of the contributing runs' timestamps as rows; a run without a
\* feature file contributes no column and does not make aggregation fail.
C20_OneColumnPerRun ==
    CompileRuns # {} =>
        /\ Producers # <<>> => SummaryColumnsPerProducer
        /\ (\A k \in 1..Len(folders) : ~ProducedFeatures(k)) => pc = "done"

\* the part of C20 that the code keeps: when compile_experiment_traces
\* returns, the tables hold one column per producing run
C20_WhenCompileReturns ==
    (CompileRuns # {} /\ pc = "done") =>
        /\ Producers # <<>> => SummaryColumnsPerProducer
        /\ Producers = <<>> => summary = NoSummary

\* a compilation over a run without a feature file and a producing run
C20_SkippedRun ==
    /\ CompileRuns # {}
    /\ pc = "done"
    /\ Len(folders) = 2
    /\ files[1]["features"].kind = "absent"
    /\ Len(Producers) = 1
    /\ summary["fwhm_ev"].kind = "table"

\* a compilation over two producing runs with different timestamps, the
\* folder of reaction 2 first
C20_TwoRuns ==
    /\ CompileRuns # {}
    /\ pc = "done"
    /\ Len(Producers) = 2
    /\ folders[1] = <<"2", "_", "b">>
    /\ TimestampsOf(1) # TimestampsOf(2)
    /\ summary["fwhm_ev"].kind = "table"

\* the files a stage of the pipeline writes
OutputKeys == {"cleaned_nir", "cleaned_vis", "smoothed_vis", "merged", "features",
               "plot_VIS", "plot_NIR", "plot_Merged"}

\* main ended without a parameters table: no stage was executed for any run
\* and no cleaned, smoothed, merged, feature or summary file exists
StoppedBeforeAnyRun ==
    /\ pc = "done"
    /\ trace = <<>>
    /\ summary = NoSummary
    /\ \A k \in 1..Len(folders) :
         \A key \in OutputKeys : files[k][key].kind = "absent"

\* C21 (as claimed): without a parameters table main stops before processing
\* any run (no stage is executed, no output file is written), and this is
\* the only condition on the data that stops the whole pipeline: with a
\* table main reaches the aggregation step and returns.
C21_OnlyMissingTableStops ==
    Terminated =>
        /\ params.kind = "absent" => StoppedBeforeAnyRun
        /\ params.kind = "table" => (pc = "done" /\ CompileRuns # {})

\* the part of C21 that the code keeps: a missing table is logged and main
\* returns before the loop over the run folders
C21_NoTableNoStage ==
    (Terminated /\ params.kind = "absent") =>
        /\ StoppedBeforeAnyRun
        /\ Len(log) = 1 /\ log[1].stage = "main"

\* main returned for lack of a table in a directory that holds run folders
\* with raw files
C21_NoTableReached ==
    /\ Terminated
    /\ params.kind = "absent"
    /\ Len(folders) = 2
    /\ files[2]["raw_nir"].kind = "frame"

\* the files of a run folder that each stage owns
OwnedKeys(stage) ==
    CASE stage = "standardize" -> {"cleaned_nir", "cleaned_vis"}
      [] stage = "smooth" -> {"smoothed_nir", "smoothed_vis"}
      [] stage = "merge" -> {"merged"}
      [] stage = "plot" -> {"plot_VIS", "plot_NIR", "plot_Merged"}
      [] stage = "extract" -> {"features"}
      [] OTHER -> {}

\* the output of the stage immediately before each stage (the raw data for
\* the Standardizer), in the order Standardizer, Smoother, Merger, Feature
\* Extractor, Aggregator
PrecedingOutput(stage) ==
    CASE stage = "standardize" -> {"raw_nir", "raw_vis"}
      [] stage = "smooth" -> OwnedKeys("standardize")
      [] stage = "merge" -> OwnedKeys("smooth")
      [] stage = "extract" -> OwnedKeys("merge")
      [] OTHER -> OwnedKeys("extract")

\* the output each stage reads from: as PrecedingOutput, but the Feature
\* Extractor reads the Smoother's near-infrared output
ReadFrom(stage) ==
    IF stage = "extract" THEN {"smoothed_nir"} ELSE PrecedingOutput(stage)

\* the step is a stage call: it appended its record to the trace
StageCalled == Len(trace') = Len(trace) + 1

\* the step wrote only files its stage owns, in the folder of its run, and
\* the summary tables only in the Aggregator; a step that is no stage call
\* wrote nothing
WritesOwnedOnly ==
    IF StageCalled
    THEN LET e == trace'[Len(trace')]
         IN  /\ e.wrote \subseteq
                   (IF e.stage = "compile" THEN {Metrics[k] : k \in 1..3}
                    ELSE OwnedKeys(e.stage))
             /\ \A k \in 1..Len(files) : \A key \in FileKeys :
                   files'[k][key] # files[k][key] =>
                       (k = e.run /\ key \in OwnedKeys(e.stage))
             /\ summary' # summary => e.stage = "compile"
    ELSE files' = files /\ summary' = summary

\* C22 (as claimed): every output file is written by exactly one stage, no
\* stage writes the raw input or a file of another stage, and each of the
\* five stages reads only from the output of the immediately preceding stage
\* (the raw data for the Standardizer).
C22_ReadsPrecedingStage ==
    [][/\ WritesOwnedOnly
       /\ (StageCalled /\ trace'[Len(trace')].stage # "plot") =>
             trace'[Len(trace')].read
                \subseteq PrecedingOutput(trace'[Len(trace')].stage)]_vars

\* C22 (amended): writes as claimed; the Standardizer reads the raw data, the
\* Smoother the cleaned files, the Merger the smoothed files, the Feature
\* Extractor the smoothed near-infrared file (not the merged one) and the
\* Aggregator the feature files.
C22_StageOwnership ==
    [][/\ WritesOwnedOnly
       /\ (StageCalled /\ trace'[Len(trace')].stage # "plot") =>
             trace'[Len(trace')].read
                \subseteq ReadFrom(trace'[Len(trace')].stage)]_vars

\* C22 witness: main returned after every stage of a run wrote its files
\* and the Feature Extractor read the smoothed NIR file next to a merged file
C22_Witness ==
    /\ pc = "done"
    /\ CompileRuns # {}
    /\ \E i \in 1..Len(trace) :
         /\ trace[i].stage = "extract"
         /\ trace[i].read = {"smoothed_nir"}
         /\ trace[i].wrote = {"features"}
         /\ files[trace[i].run]["merged"].kind = "frame"
         /\ files[trace[i].run]["cleaned_vis"].kind = "frame"
    /\ summary["fwhm_ev"].kind = "table"

\* compile_experiment_traces has returned
Compiled == pc = "returned" /\ Len(trace) = 1 /\ trace[1].stage = "compile"

\* the value of a filled cell: a read value, or the point k / n of the way
\* from lo to hi
CellValue(cell) ==
    IF cell.kind = "interp"
    THEN Rat(cell.lo.v * (cell.n - cell.k) + cell.hi.v * cell.k, cell.n)
    ELSE RatOfInt(cell.v)

\* the rational x lies between the numbers a and b
RatBetween(x, a, b) ==
    /\ Min(a, b) * x.den <= x.num
    /\ x.num <= Max(a, b) * x.den

\* the filled series out of the series in: read values stay, an interior
\* gap lies between its two present neighbours, a leading gap takes the first
\* present value, a trailing gap the last, and no absent value is left
FilledAsClaimed(in, out) ==
    /\ Len(out) = Len(in)
    /\ \A i \in 1..Len(in) :
         LET before == {a \in 1..(i - 1) : in[a] # NaN}
             after == {b \in (i + 1)..Len(in) : in[b] # NaN}
             prev == CHOOSE a \in before : \A j \in before : j <= a
             next == CHOOSE b \in after : \A j \in after : b <= j
         IN  /\ out[i] # NaN
             /\ in[i] # NaN => out[i] = in[i]
             /\ (in[i] = NaN /\ before # {} /\ after # {}) =>
                   RatBetween(CellValue(out[i]), in[prev].v, in[next].v)
             /\ (in[i] = NaN /\ before = {}) => out[i] = in[next]
             /\ (in[i] = NaN /\ after = {}) => out[i] = in[prev]

\* C26: in compile_experiment_traces the series of each channel of each run
\* that the smoothing filter receives is the run's series filled by
\* interpolate, back-fill, forward-fill: interior gaps get values between
\* their two present neighbours, leading gaps the first present value,
\* trailing gaps the last, and a series with a present value has no absent
\* value left.
C26_FillBeforeSmoothing ==
    Compiled =>
        /\ Len(local.filled) = Len(Contributors(files))
        /\ \A k \in 1..Len(local.filled) : \A m \in DOMAIN summary :
              LET in == MetricSeries(files[Contributors(files)[k]]["features"].rows, m)
              IN  (\E i \in 1..Len(in) : in[i] # NaN) =>
                      FilledAsClaimed(in, local.filled[k][m])

\* C26 witness: a series with a leading gap, an interior gap of two records
\* between different values and, in the mirrored channel, a trailing gap
C26_Witness ==
    /\ Compiled
    /\ LET in == MetricSeries(files[1]["features"].rows, "peak_wavelength")
           out == local.filled[1]["peak_wavelength"]
       IN  /\ Len(in) = 5
           /\ in[1] = NaN /\ in[2] # NaN /\ in[3] = NaN /\ in[4] = NaN
           /\ in[5] # NaN /\ in[5] # in[2]
           /\ out[1] = in[2]
           /\ out[3].kind = "interp" /\ out[3].k = 1 /\ out[3].n = 3
           /\ out[4].kind = "interp" /\ out[4].k = 2
           /\ local.filled[1]["fwhm_ev"][5] = local.filled[1]["fwhm_ev"][4]


\* the files a stage writes that a later stage or the Aggregator reads
DataKeys == {"cleaned_nir", "cleaned_vis", "smoothed_nir", "smoothed_vis",
             "merged", "features"}

\* standardize_time_axis has returned for the run k
StandardizeReturned(k) ==
    \E i \in 1..Len(trace) :
        /\ trace[i].stage = "standardize"
        /\ trace[i].run = k
        /\ i = Len(trace) => pc # "raised"

\* the run k began without a smoothed NIR file of an earlier execution, the
\* Standardizer returned for it and there is no cleaned NIR file
SkippedRun(k) ==
    /\ StandardizeReturned(k)
    /\ files[k]["cleaned_nir"].kind = "absent"
    /\ files[k]["smoothed_nir"].kind # "malformed"

SkippedRuns == {k \in 1..Len(folders) : SkippedRun(k)}

\* the entries of a per-run sequence for the runs that are not skipped
WithoutSkipped(seq) ==
    LET kept == SortedSeq((1..Len(seq)) \ SkippedRuns)
    IN  [j \in 1..Len(kept) |-> seq[kept[j]]]

\* the data files the per-run stages of main leave in a run folder that
\* starts with the raw files of f alone
SoloOutcomes(f, name) ==
    LET a == standardize_time_axis(NoOutputs(f["raw_nir"], f["raw_vis"]),
                                   name, params).files
        smoothed(emptyOk) ==
            apply_smoothing(a, DEFAULT_WINDOW_LENGTH, DEFAULT_POLYORDER,
                            emptyOk, TRUE).files
        merged(emptyOk) ==
            merge_vis_nir_spectra(smoothed(emptyOk), STITCH_WAVELENGTH,
                                  STITCH_WINDOW, MIN_SIGNAL_THRESHOLD).files
    IN  {[k \in DataKeys |->
             extract_spectral_features(merged(emptyOk), INTENSITY_THRESHOLD,
                                       TIME_THRESHOLD, peaks).files[k]] :
            emptyOk \in BOOLEAN,
            peaks \in UNION {EvPeaks(merged(b)["smoothed_nir"]) : b \in BOOLEAN}}

\* the summary tables compile_experiment_traces builds for the run list
\* without the skipped runs
SummaryWithoutSkipped ==
    compile_experiment_traces(WithoutSkipped(files), WithoutSkipped(folders),
                              NoSummary, DEFAULT_WINDOW_LENGTH,
                              DEFAULT_POLYORDER, TRUE).summary

\* C27: a run that began without output of an earlier execution and for which
\* the Standardizer returned without a cleaned NIR file never has a smoothed
\* NIR file or a feature file and is no column of a summary table; when main
\* has ended, the data files of every other run are those the stages produce
\* from its raw files alone, and the summary tables are those of the run list
\* without the skipped runs
C27_SkipPropagation ==
    /\ \A k \in SkippedRuns :
         /\ files[k]["smoothed_nir"].kind = "absent"
         /\ files[k]["features"].kind = "absent"
         /\ \A m \in DOMAIN summary :
              summary[m].kind = "table" =>
                  \A c \in 1..Len(summary[m].columns) :
                      summary[m].columns[c] # folders[k]
    /\ (pc = "done" /\ CompileRuns # {}) =>
         /\ \A j \in (1..Len(folders)) \ SkippedRuns :
              [k \in DataKeys |-> files[j][k]] \in SoloOutcomes(files[j], folders[j])
         /\ summary = SummaryWithoutSkipped

\* main has ended after a skipped run and a run that is a column of the
\* summary tables
C27_Witness ==
    /\ pc = "done"
    /\ CompileRuns # {}
    /\ SkippedRuns # {}
    /\ summary # NoSummary
    /\ \E j \in (1..Len(folders)) \ SkippedRuns :
         files[j]["features"].kind # "absent"

\* main has ended after a run the Standardizer skipped for its unknown
\* reaction id
C27_UnknownId ==
    /\ pc = "done"
    /\ CompileRuns # {}
    /\ summary # NoSummary
    /\ \E k \in SkippedRuns :
         /\ files[k]["raw_nir"].kind = "frame"
         /\ files[k]["cleaned_vis"].kind = "absent"
         /\ files[k]["raw_vis"].kind = "frame"



(***************************************************************************)
(*                     Claims about the liquid handling                    *)
(***************************************************************************)
\* the read-backs of the running or last call of _toggle_valve_retry that
\* differ from the desired state
Differing ==
    {i \in 1..Len(local.readbacks) : local.readbacks[i] # local.desired_state}

\* the call has issued one toggle command per read-back, and one more while
\* it waits for a read-back
RetryContract ==
    /\ local.toggles <= 3
    /\ local.result = "running" =>
         /\ Len(local.readbacks) < 3
         /\ Differing = 1..Len(local.readbacks)
         /\ local.toggles \in {Len(local.readbacks), Len(local.readbacks) + 1}
    /\ local.result = "returned" =>
         /\ local.readbacks # <<>>
         /\ Differing = 1..(Len(local.readbacks) - 1)
         /\ local.toggles = Len(local.readbacks)
    /\ local.result = "raised" =>
         /\ Len(local.readbacks) = 3
         /\ Differing = 1..3
         /\ local.toggles = 3
         /\ local.exc = "FlowControlError"

\* C28: _toggle_valve_retry issues at most 3 toggle commands, returns right
\* after the first read-back equal to the desired state with no further
\* toggle, raises FlowControlError exactly when 3 read-backs all differ from
\* the desired state, and every call of it ends
C28_ToggleRetry ==
    /\ [](local.result # "none" => RetryContract)
    /\ (local.result = "running") ~> (local.result \in {"returned", "raised"})

\* a call that returned at its third read-back
C28_Witness ==
    /\ local.result = "returned"
    /\ Len(local.readbacks) = 3
    /\ local.toggles = 3

\* a call that raised FlowControlError on a valve the controller serves
C28_Raised ==
    /\ local.result = "raised"
    /\ pc = "raised"
    /\ flow.mux.instr_id >= 0
    /\ local.valve_number \in 1..MAX_VALVES



\* the step is a toggle command of _toggle_valve_retry called by the
\* operation by
ToggledBy(by) ==
    /\ pc = "toggle"
    /\ pc' = "readback"
    /\ local.by = by

\* C29 (as claimed): switch_v1_source toggles valve 1 only while the
\* setpoint of channel 1 is 0, and switch_v2_outlet toggles valve 2 only
\* while the setpoint of channel 2 is 0, also when the instrument refuses
\* the venting command
C29_VentBeforeSwitching ==
    [][/\ ToggledBy("switch_v1_source") => get_setpoint(flow.ob, 1) = 0
       /\ ToggledBy("switch_v2_outlet") => get_setpoint(flow.ob, 2) = 0]_vars

\* the two switching operations toggle no valve but their own
C29_OwnValve ==
    [][/\ ToggledBy("switch_v1_source") => local.valve_number = 1
       /\ ToggledBy("switch_v2_outlet") => local.valve_number = 2]_vars



\* the commands of stop() in the order of lines 86-90
StopCalls ==
    <<"mux.set_trigger_out", "mux.close_all", "ob.set_pressure_1",
      "ob.set_pressure_2", "muxd.switch_valve">>

\* a handle has been closed
HandleClosed ==
    \/ flow.ob.instr_id < 0
    \/ flow.mux.instr_id < 0
    \/ ~flow.stirrer.is_open
    \/ \E k \in 1..Len(trace) :
         trace[k].call \in {Handles[h] \o ".close" : h \in 1..Len(Handles)}

\* what the instruments hold once stop() has returned, for each command
\* they accepted
StoppedState ==
    /\ \A k \in 1..Len(StopCalls) : trace[k].call = StopCalls[k]
    /\ trace[1].accepted => flow.mux.trig = 0
    /\ trace[2].accepted =>
         \A v \in 1..MAX_VALVES :
             flow.mux.valves[v] = 0 /\ flow.mux.valve_states[v] = 0
    /\ trace[3].accepted =>
         get_setpoint(flow.ob, 1) = 0 /\ flow.ob.press[1] = 0
    /\ trace[4].accepted =>
         get_setpoint(flow.ob, 2) = 0 /\ flow.ob.press[2] = 0
    /\ trace[5].accepted => flow.muxd.position = 11

\* main has left the finally block
MainEnded == pc \in {"done", "raised"}

\* C30: every way of leaving the reaction loop of main leads into the
\* finally block, which calls stop(); stop() lowers the trigger, closes the
\* 16 valves, sets the channels 1 and 2 to 0 and sends the distribution
\* valve to 11, as far as the instruments accept the commands; and no handle
\* is closed before stop() has returned
C30_SafeShutdown ==
    /\ [][(pc \in InLoop /\ pc' \notin InLoop) => pc' = "finally"]_vars
    /\ []((HandleClosed \/ trace # <<>>) => StoppedState)
    /\ [](MainEnded => HandleClosed /\ trace # <<>>)
    /\ (pc = "finally") ~> (trace # <<>> /\ StoppedState)

\* main ended by a FlowControlError, after a shutdown in which every command
\* was accepted
C30_Witness ==
    /\ pc = "raised"
    /\ local.exc = "FlowControlError"
    /\ Len(trace) = Len(StopCalls) + 1 + Len(Handles)
    /\ \A k \in 1..Len(StopCalls) : trace[k].accepted
    /\ HandleClosed

\* main ended after all reactions
C30_Completed ==
    /\ pc = "done"
    /\ local.exc = "none"
    /\ run = MaxReactions
    /\ Len(trace) = Len(StopCalls) + 1 + Len(Handles)

\* main ended after a KeyboardInterrupt that came while channel 2 pulled
\* vacuum, which stop() then vented
C30_Interrupted ==
    /\ pc = "done"
    /\ local.exc = "KeyboardInterrupt"
    /\ trace[4].accepted
    /\ flow.ob.press[2] = 0
    /\ flow.ob.press[1] = 1000


====
